---------------------------- MODULE Spec2Model ----------------------------
(***************************************************************************)
(* A model of the go-easy-instrumentation engine: the source-to-source     *)
(* transformer that injects New Relic agent calls into a Go program.       *)
(*                                                                         *)
(* A statement is a record (the dst node, its decorations, the calls found *)
(* in it in dst.Inspect order, its nested statement list); a declaration   *)
(* is a record with its parameter fields and its body; the manager holds   *)
(* the package index, the per-package imports and the current package.     *)
(*                                                                         *)
(* Two specifications:                                                     *)
(*   SpecList  the transforms applied by a cursor to one node of a         *)
(*             statement list (parser/agent.go, the net/http transforms)   *)
(*   Spec      the whole transformation: the driver walks the              *)
(*             declarations, InstrumentMain and InstrumentHandleFunction   *)
(*             start the function tracer, a second run works on the        *)
(*             output of the first                                         *)
(***************************************************************************)
EXTENDS Naturals, Integers, Sequences, FiniteSets, TLC

VARIABLES
    mgr,      \* the InstrumentationManager: index, flags, imports, package
    pc,       \* "walk" | "done" | "crashed"
    visited,  \* declarations the driver has handled in this run
    run,      \* 1: first run, 2: run on the output of the first
    out1,     \* the declarations emitted by the first run
    log,      \* what the entry points observed (TraceFunction's results)
    cur,      \* SpecList: the cursor (list, position, validity)
    applied,  \* SpecList: the transforms applied at the cursor, in order
    ret,      \* SpecList: what the last stateful transform returned
    orig      \* SpecList: the statement list before any transform

vars == <<mgr, pc, visited, run, out1, log, cur, applied, ret, orig>>

---------------------------------------------------------------------------
(* Program constants *)

newrelicAgentImport == "github.com/newrelic/go-agent/v3/newrelic"
netHttpPath == "net/http"
httpHandleFunc == "HandleFunc"
httpMuxHandle == "Handle"
httpDo == "Do"
httpGet == "Get"
httpPost == "Post"
httpHead == "Head"
httpPostForm == "PostForm"
httpDefaultClientVariable == "DefaultClient"
defaultTxnName == "txn"
handlerTxnName == "nrTxn"
defaultAgentVariableName == "agent"

None == "None"
NewLine == "NewLine"
EmptyLine == "EmptyLine"

TxnType == "*newrelic.Transaction"
ResponseType == "*net/http.Response"
ErrorType == "error"

---------------------------------------------------------------------------
(* The decorated AST *)

\* dst.NodeDecs of a node without decorations
NoDecs == [Before |-> None, Start |-> <<>>, End |-> <<>>, After |-> None]

\* a nil *dst.NodeDecs
NilDecs == [Before |-> "nil", Start |-> <<>>, End |-> <<>>, After |-> "nil"]

IsNilDecs(d) == d.Before = "nil"

\* dst.Expr: an identifier (e = "Ident"), a literal (e = "Lit"), a call
\* x.name(args) or name(args) (e = "Call"), a binary expression (e = "Bin")
Expr(e, x, name, path, args) ==
    [e |-> e, x |-> x, name |-> name, path |-> path, args |-> args]

NewIdent(name) == Expr("Ident", "", name, "", <<>>)

PathIdent(name, path) == Expr("Ident", "", name, path, <<>>)

BasicLit(value) == Expr("Lit", "", value, "", <<>>)

\* A call expression as dst.Inspect meets it inside a statement:
\*   form    "Ident" (Fun is a *dst.Ident) or "Selector" (x.name)
\*   path    the package path of the callee ("" for the current package)
\*   xPath   the package path of the receiver identifier
\*   under   the position of the call this one is an argument of (0: none)
\*   results the result types (a *types.Tuple or one type)
\*   typed   whether the decorator's type information knows the node
Call(form, x, xPath, name, path, args, under, results, typed) ==
    [form |-> form, x |-> x, xPath |-> xPath, name |-> name, path |-> path,
     args |-> args, under |-> under, results |-> results, typed |-> typed]

\* A call the transformer generates: its node is not in the type information
GenCall(form, x, name, path, args) ==
    Call(form, x, "", name, path, args, 0, <<>>, FALSE)

\* A left-hand side: an identifier or a selector expression, with its type
Lhs(name, isIdent, type) == [name |-> name, isIdent |-> isIdent, type |-> type]

\* dst.Stmt.
\*   node    the dst node type
\*   what    what the statement is ("user": written by the user)
\*   id      the identity of a user statement (0 for a generated one)
\*   inList  FALSE when the node is not an element of a statement list
\*           (the statement of a label, the init of an if): c.Index() < 0
\*   top     the position in calls of the call that is the statement's own
\*           expression (ExprStmt.X, Rhs[0], GoStmt.Call, DeferStmt.Call)
\*   rhs     "call" | "clientLit" | "expr" | "other" | "" ; rhsN = len(Rhs)
\*   x       the right-hand side when it is a plain expression (rhs = "expr")
\*   params  the parameter fields of a function literal launched by go
\*   body    the nested statement list (a block, a literal's body)
Stmt(node, what, tok, lhs, rhsN, rhs, calls, top, decs, params, body) ==
    [node |-> node, what |-> what, id |-> 0, inList |-> TRUE, tok |-> tok,
     lhs |-> lhs, rhsN |-> rhsN, rhs |-> rhs, x |-> "", calls |-> calls,
     top |-> top, decs |-> decs, params |-> params, body |-> body]

\* dst.Field: the names declared with one type
Field(names, type) == [names |-> names, type |-> type]

---------------------------------------------------------------------------
(* Code generation: parser/agent.go *)

panicOnError ==
    Stmt("IfStmt", "panicOnError", "", <<>>, 0, "", <<>>, 0,
         [NoDecs EXCEPT !.After = EmptyLine], <<>>,
         << Stmt("ExprStmt", "panic", "", <<>>, 0, "",
                 << GenCall("Ident", "", "panic", "", <<NewIdent("err")>>) >>,
                 1, NoDecs, <<>>, <<>>) >>)

\* Faulty variant of createAgentAST: the error check comes before the
\* assignment it checks
createAgentAST_ErrFirst(AppName, AgentVariableName) ==
    LET cfgEnv == Expr("Call", "", "ConfigFromEnvironment", newrelicAgentImport, <<>>)
        cfgName == Expr("Call", "", "ConfigAppName", newrelicAgentImport,
                        << BasicLit("\"" \o AppName \o "\"") >>)
        newappArgs == IF AppName # "" THEN <<cfgName, cfgEnv>> ELSE <<cfgEnv>>
        agentInit ==
            Stmt("AssignStmt", "agentInit", "DEFINE",
                 << Lhs(AgentVariableName, TRUE, "*newrelic.Application"),
                    Lhs("err", TRUE, ErrorType) >>,
                 1, "call",
                 << GenCall("Ident", "", "NewApplication", newrelicAgentImport,
                            newappArgs) >>,
                 1, NoDecs, <<>>, <<>>)
    IN  <<panicOnError, agentInit>>

createAgentAST(AppName, AgentVariableName) ==
    LET cfgEnv == Expr("Call", "", "ConfigFromEnvironment", newrelicAgentImport, <<>>)
        cfgName == Expr("Call", "", "ConfigAppName", newrelicAgentImport,
                        << BasicLit("\"" \o AppName \o "\"") >>)
        newappArgs == IF AppName # "" THEN <<cfgName, cfgEnv>> ELSE <<cfgEnv>>
        agentInit ==
            Stmt("AssignStmt", "agentInit", "DEFINE",
                 << Lhs(AgentVariableName, TRUE, "*newrelic.Application"),
                    Lhs("err", TRUE, ErrorType) >>,
                 1, "call",
                 << GenCall("Ident", "", "NewApplication", newrelicAgentImport,
                            newappArgs) >>,
                 1, NoDecs, <<>>, <<>>)
    IN  <<agentInit, panicOnError>>

\* Faulty variant of shutdownAgent: the call is deferred
shutdownAgent_Deferred(AgentVariableName) ==
    Stmt("DeferStmt", "shutdown", "", <<>>, 0, "",
         << GenCall("Selector", AgentVariableName, "Shutdown", "",
                    << Expr("Bin", "5", "*", "time", <<NewIdent("Second")>>) >>) >>,
         1, [NoDecs EXCEPT !.Before = EmptyLine], <<>>, <<>>)

shutdownAgent(AgentVariableName) ==
    Stmt("ExprStmt", "shutdown", "", <<>>, 0, "",
         << GenCall("Selector", AgentVariableName, "Shutdown", "",
                    << Expr("Bin", "5", "*", "time", <<NewIdent("Second")>>) >>) >>,
         1, [NoDecs EXCEPT !.Before = EmptyLine], <<>>, <<>>)

\* Faulty variant of startTransaction: the variable is defined every time
startTransaction_Define(appVariableName, txnVariableName, txnName, overwriteVariable) ==
    Stmt("AssignStmt", "startTransaction", "DEFINE",
         << Lhs(txnVariableName, TRUE, TxnType) >>, 1, "call",
         << GenCall("Selector", appVariableName, "StartTransaction", "",
                    << BasicLit("\"" \o txnName \o "\"") >>) >>,
         1, NoDecs, <<>>, <<>>)

startTransaction(appVariableName, txnVariableName, txnName, overwriteVariable) ==
    Stmt("AssignStmt", "startTransaction",
         IF overwriteVariable THEN "ASSIGN" ELSE "DEFINE",
         << Lhs(txnVariableName, TRUE, TxnType) >>, 1, "call",
         << GenCall("Selector", appVariableName, "StartTransaction", "",
                    << BasicLit("\"" \o txnName \o "\"") >>) >>,
         1, NoDecs, <<>>, <<>>)

endTransaction(transactionVariableName) ==
    Stmt("ExprStmt", "endTransaction", "", <<>>, 0, "",
         << GenCall("Selector", transactionVariableName, "End", "", <<>>) >>,
         1, NoDecs, <<>>, <<>>)

\* Faulty variant of txnAsParameter: the field declares the name twice
txnAsParameter_TwoNames(txnName) == Field(<<txnName, txnName>>, TxnType)

txnAsParameter(txnName) == Field(<<txnName>>, TxnType)

\* Faulty variant of deferSegment: the segment is ended at once, the
\* statement is not deferred
deferSegment_NotDeferred(segmentName, txnVarName) ==
    Stmt("ExprStmt", "deferSegment", "", <<>>, 0, "",
         << GenCall("Selector", "", "End", "", <<>>),
            [GenCall("Selector", txnVarName, "StartSegment", "",
                     << BasicLit("\"" \o segmentName \o "\"") >>)
                EXCEPT !.under = 1] >>,
         1, NoDecs, <<>>, <<>>)

\* Faulty variant of deferSegment: every segment has the name of the
\* goroutine literals
deferSegment_AsyncLiteral(segmentName, txnVarName) ==
    Stmt("DeferStmt", "deferSegment", "", <<>>, 0, "",
         << GenCall("Selector", "", "End", "", <<>>),
            [GenCall("Selector", txnVarName, "StartSegment", "",
                     << BasicLit("\"async literal\"") >>)
                EXCEPT !.under = 1] >>,
         1, NoDecs, <<>>, <<>>)

\* defer <txn>.StartSegment("<segmentName>").End(): calls[1] is End, whose
\* receiver is the call StartSegment (calls[2])
deferSegment(segmentName, txnVarName) ==
    Stmt("DeferStmt", "deferSegment", "", <<>>, 0, "",
         << GenCall("Selector", "", "End", "", <<>>),
            [GenCall("Selector", txnVarName, "StartSegment", "",
                     << BasicLit("\"" \o segmentName \o "\"") >>)
                EXCEPT !.under = 1] >>,
         1, NoDecs, <<>>, <<>>)

\* Faulty variant of txnNewGoroutine: the transaction itself is handed to
\* the goroutine
txnNewGoroutine_Bare(txnVarName) == NewIdent(txnVarName)

txnNewGoroutine(txnVarName) == Expr("Call", txnVarName, "NewGoroutine", "", <<>>)


isNamedError(type) == type = ErrorType

\* errorReturnIndex: idx is the position (from 1) of the first error result
errorReturnIndex(v) ==
    IF ~v.typed THEN [idx |-> 0, ok |-> FALSE]
    ELSE LET errs == {i \in 1..Len(v.results) : isNamedError(v.results[i])}
         IN  IF errs = {} THEN [idx |-> 0, ok |-> FALSE]
             ELSE [idx |-> CHOOSE i \in errs : \A j \in errs : i <= j,
                   ok |-> TRUE]

isNewRelicMethod(call) ==
    IF call.form = "Selector" THEN call.x = "newrelic"
    ELSE call.path = newrelicAgentImport

\* Faulty variant of generateNoticeError: the trailing decorations are
\* copied, not moved
generateNoticeError_Copy(errVariableName, txnName, nodeDecs) ==
    LET decs == IF IsNilDecs(nodeDecs) THEN NoDecs
                ELSE [NoDecs EXCEPT !.After = nodeDecs.After,
                                    !.End = nodeDecs.End]
    IN  [stmt |-> Stmt("ExprStmt", "noticeError", "", <<>>, 0, "",
                       << GenCall("Selector", txnName, "NoticeError", "",
                                  <<NewIdent(errVariableName)>>) >>,
                       1, decs, <<>>, <<>>),
         decs |-> nodeDecs]

\* Faulty variant of generateNoticeError: the transaction is taken to be
\* named txn
generateNoticeError_Txn(errVariableName, txnName, nodeDecs) ==
    LET decs == IF IsNilDecs(nodeDecs) THEN NoDecs
                ELSE [NoDecs EXCEPT !.After = nodeDecs.After,
                                    !.End = nodeDecs.End]
    IN  [stmt |-> Stmt("ExprStmt", "noticeError", "", <<>>, 0, "",
                       << GenCall("Selector", "txn", "NoticeError", "",
                                  <<NewIdent(errVariableName)>>) >>,
                       1, decs, <<>>, <<>>),
         decs |-> IF IsNilDecs(nodeDecs) THEN nodeDecs
                  ELSE [nodeDecs EXCEPT !.After = None, !.End = <<>>]]

\* The helpers that move decorations return the new statement (stmt) and
\* the decorations left on the node they were taken from (decs).
generateNoticeError(errVariableName, txnName, nodeDecs) ==
    LET decs == IF IsNilDecs(nodeDecs) THEN NoDecs
                ELSE [NoDecs EXCEPT !.After = nodeDecs.After,
                                    !.End = nodeDecs.End]
    IN  [stmt |-> Stmt("ExprStmt", "noticeError", "", <<>>, 0, "",
                       << GenCall("Selector", txnName, "NoticeError", "",
                                  <<NewIdent(errVariableName)>>) >>,
                       1, decs, <<>>, <<>>),
         decs |-> IF IsNilDecs(nodeDecs) THEN nodeDecs
                  ELSE [nodeDecs EXCEPT !.After = None, !.End = <<>>]]

findErrorVariable(stmt) ==
    IF stmt.rhsN = 1 /\ stmt.rhs = "call" /\ ~isNewRelicMethod(stmt.calls[stmt.top])
    THEN LET r == errorReturnIndex(stmt.calls[stmt.top])
         IN  IF r.ok /\ stmt.lhs[r.idx].isIdent THEN stmt.lhs[r.idx].name
             ELSE ""
    ELSE ""

---------------------------------------------------------------------------
(* The dstutil cursor: a statement list and the position of the node *)

Cursor(list, i) == [list |-> list, i |-> i]

Node(c) == c.list[c.i]

\* Faulty variant of Index: the position in the enclosing list, whether or
\* not the node is an element of it
Index_Position(c) == c.i - 1

\* c.Index(): -1 when the node is not an element of a list
Index(c) == IF Node(c).inList THEN c.i - 1 ELSE -1

InsertBefore(c, s) ==
    [list |-> SubSeq(c.list, 1, c.i - 1) \o <<s>> \o SubSeq(c.list, c.i, Len(c.list)),
     i |-> c.i + 1]

InsertAfter(c, s) ==
    [list |-> SubSeq(c.list, 1, c.i) \o <<s>> \o SubSeq(c.list, c.i + 1, Len(c.list)),
     i |-> c.i]

\* the node's decorations are reached through a pointer: writing them
\* changes the node in the list
SetDecs(c, d) == [c EXCEPT !.list[c.i].decs = d]

SetNode(c, s) == [c EXCEPT !.list[c.i] = s]

---------------------------------------------------------------------------
(* The manager's import set *)

AddImport(m, path) ==
    [m EXCEPT !.imports[m.currentPackage] = @ \cup {path}]

\* What a transform returns: the cursor, the manager, its boolean
Result(c, m, ok) == [c |-> c, m |-> m, ok |-> ok]

---------------------------------------------------------------------------
(* Stateful tracing functions: parser/agent.go *)

NoticeError(m, c, txnName) ==
    LET stmt == Node(c)
        errVar == findErrorVariable(stmt)
    IN  IF stmt.node = "AssignStmt" /\ errVar # "" /\ Index(c) >= 0
        THEN LET g == generateNoticeError(errVar, txnName, stmt.decs)
             IN  Result(InsertAfter(SetDecs(c, g.decs), g.stmt), m, TRUE)
        ELSE Result(c, m, FALSE)

---------------------------------------------------------------------------
(* net/http recognition and transforms *)

\* typeOfIdent answers "" for a node the type information does not know
GetNetHttpClientVariableName(n) ==
    IF n.form = "Selector" /\ n.typed /\ n.xPath = netHttpPath THEN n.x ELSE ""

GetNetHttpMethod(n) ==
    IF n.typed /\ n.path = netHttpPath THEN n.name ELSE ""

\* dst.Inspect with a callback that returns false at a match: the calls
\* below a match are not visited, the calls beside it are
RECURSIVE Ancestors(_, _)
Ancestors(calls, i) ==
    IF calls[i].under = 0 THEN {}
    ELSE {calls[i].under} \cup Ancestors(calls, calls[i].under)

\* the positions Inspect stops at, for a match given as a set of positions
Stops(calls, match) ==
    {i \in match : Ancestors(calls, i) \cap match = {}}

Last(S) == CHOOSE i \in S : \A j \in S : j <= i

\* Faulty variant of WrapHandleFuncArgs: handler and pattern change places
WrapHandleFuncArgs_Swapped(agentExpr, oldArgs) ==
    << Expr("Call", "", "WrapHandleFunc", newrelicAgentImport,
            <<agentExpr, oldArgs[2], oldArgs[1]>>) >>

WrapHandleFuncArgs(agentExpr, oldArgs) ==
    << Expr("Call", "", "WrapHandleFunc", newrelicAgentImport,
            <<agentExpr, oldArgs[1], oldArgs[2]>>) >>

IsHandleCall(call) ==
    /\ GetNetHttpMethod(call) \in {httpHandleFunc, httpMuxHandle}
    /\ Len(call.args) = 2

\* WrapHandleFunc(v.X, manager, c): n is the expression of the statement
WrapHandleFunc(stmt, m) ==
    IF stmt.top # 0 /\ IsHandleCall(stmt.calls[stmt.top])
    THEN [stmt EXCEPT !.calls[stmt.top].args =
              WrapHandleFuncArgs(NewIdent(m.agentVariableName), @)]
    ELSE stmt

txnFromContext(txnVariable) ==
    Stmt("AssignStmt", "txnFromContext", "DEFINE",
         << Lhs(txnVariable, TRUE, TxnType) >>, 1, "call",
         << GenCall("Ident", "", "FromContext", newrelicAgentImport,
                    << Expr("Call", "r", "Context", "", <<>>) >>) >>,
         1, [NoDecs EXCEPT !.After = EmptyLine], <<>>, <<>>)

\* Faulty variant of defineTxnFromCtx: the binding is appended to the body
defineTxnFromCtx_Append(fn, txnVariable) ==
    [fn EXCEPT !.body = @ \o <<txnFromContext(txnVariable)>>]

defineTxnFromCtx(fn, txnVariable) ==
    [fn EXCEPT !.body = <<txnFromContext(txnVariable)>> \o @]

\* a parameter field counts once, whatever the number of names it declares
isHttpHandler(decl) ==
    LET params == decl.params
    IN  /\ Len(params) = 2
        /\ \E i \in 1..2 : params[i].type = "net/http.ResponseWriter"
        /\ \E i \in 1..2 : params[i].type = "*net/http.Request"

\* Faulty variant of injectRoundTripper: the spacing is not taken over
injectRoundTripper_NoSpacing(clientVariable, spacingAfter) ==
    Stmt("AssignStmt", "roundTripper", "ASSIGN",
         << Lhs(clientVariable.name \o ".Transport", FALSE, "net/http.RoundTripper") >>,
         1, "call",
         << GenCall("Ident", "", "NewRoundTripper", newrelicAgentImport,
                    << Expr("Sel", clientVariable.name, "Transport", "", <<>>) >>) >>,
         1, NoDecs, <<>>, <<>>)

injectRoundTripper(clientVariable, spacingAfter) ==
    Stmt("AssignStmt", "roundTripper", "ASSIGN",
         << Lhs(clientVariable.name \o ".Transport", FALSE, "net/http.RoundTripper") >>,
         1, "call",
         << GenCall("Ident", "", "NewRoundTripper", newrelicAgentImport,
                    << Expr("Sel", clientVariable.name, "Transport", "", <<>>) >>) >>,
         1, [NoDecs EXCEPT !.After = spacingAfter], <<>>, <<>>)

isNetHttpClientDefinition(stmt) ==
    /\ stmt.rhsN = 1
    /\ Len(stmt.lhs) = 1
    /\ stmt.tok = "DEFINE"
    /\ stmt.rhs = "clientLit"

InstrumentHttpClient(m, c) ==
    LET stmt == Node(c)
    IN  IF /\ stmt.node = "AssignStmt" /\ isNetHttpClientDefinition(stmt)
           /\ Index(c) >= 0 /\ ~IsNilDecs(stmt.decs)
        THEN Result(SetDecs(InsertAfter(c, injectRoundTripper(stmt.lhs[1], stmt.decs.After)),
                            [stmt.decs EXCEPT !.After = None]),
                    AddImport(m, newrelicAgentImport), TRUE)
        ELSE Result(c, m, FALSE)

cannotTraceOutboundHttp(method, decs) ==
    LET comment ==
          << "// the \"http." \o method \o "()\" net/http method can not be instrumented and its outbound traffic can not be traced",
             "// please see these examples of code patterns for external http calls that can be instrumented:",
             "// https://docs.newrelic.com/docs/apm/agents/go-agent/configuration/distributed-tracing-go-agent/#make-http-requests" >>
    IN  IF ~IsNilDecs(decs) /\ Len(decs.Start) > 0
        THEN comment \o <<"//">>
        ELSE comment

CannotInstrumentCall(call) ==
    /\ call.form = "Ident"
    /\ call.path = netHttpPath
    /\ call.name \in {httpGet, httpPost, httpPostForm, httpHead}

\* the name found: the callback overwrites it at every call it stops at
isNetHttpMethodCannotInstrument(node) ==
    IF node.node \in {"AssignStmt", "ExprStmt"}
    THEN LET hits == Stops(node.calls,
                           {i \in 1..Len(node.calls) : CannotInstrumentCall(node.calls[i])})
         IN  IF hits = {} THEN [name |-> "", ok |-> FALSE]
             ELSE [name |-> node.calls[Last(hits)].name, ok |-> TRUE]
    ELSE [name |-> "", ok |-> FALSE]

CannotInstrumentHttpMethod(m, c) ==
    LET n == Node(c)
        r == isNetHttpMethodCannotInstrument(n)
    IN  IF r.ok /\ ~IsNilDecs(n.decs)
        THEN Result(SetDecs(c, [n.decs EXCEPT !.Start =
                                   cannotTraceOutboundHttp(r.name, n.decs) \o @]),
                    m, TRUE)
        ELSE Result(c, m, FALSE)

\* Faulty variant of startExternalSegment: the decorations of both sides are
\* moved to the new statement
startExternalSegment_AllDecs(request, txnVar, segmentVar, nodeDecs) ==
    [stmt |-> Stmt("AssignStmt", "startExternalSegment", "DEFINE",
                   << Lhs(segmentVar, TRUE, "*newrelic.ExternalSegment") >>,
                   1, "call",
                   << GenCall("Ident", "", "StartExternalSegment",
                              newrelicAgentImport,
                              <<NewIdent(txnVar), request>>) >>,
                   1, IF IsNilDecs(nodeDecs) THEN NoDecs ELSE nodeDecs, <<>>, <<>>),
     decs |-> IF IsNilDecs(nodeDecs) THEN nodeDecs ELSE NoDecs]

startExternalSegment(request, txnVar, segmentVar, nodeDecs) ==
    LET decs == IF IsNilDecs(nodeDecs) THEN NoDecs
                ELSE [NoDecs EXCEPT !.Before = nodeDecs.Before,
                                    !.Start = nodeDecs.Start]
    IN  [stmt |-> Stmt("AssignStmt", "startExternalSegment", "DEFINE",
                       << Lhs(segmentVar, TRUE, "*newrelic.ExternalSegment") >>,
                       1, "call",
                       << GenCall("Ident", "", "StartExternalSegment",
                                  newrelicAgentImport,
                                  <<NewIdent(txnVar), request>>) >>,
                       1, decs, <<>>, <<>>),
         decs |-> IF IsNilDecs(nodeDecs) THEN nodeDecs
                  ELSE [nodeDecs EXCEPT !.Before = None, !.Start = <<>>]]

captureHttpResponse(segmentVariable, responseVariable) ==
    [Stmt("AssignStmt", "captureHttpResponse", "ASSIGN",
          << Lhs(segmentVariable \o ".Response", FALSE, ResponseType) >>,
          1, "expr", <<>>, 0, NoDecs, <<>>, <<>>)
        EXCEPT !.x = responseVariable.name]

\* Faulty variant of endExternalSegment: the trailing decorations stay
\* where they are
endExternalSegment_KeepDecs(segmentName, nodeDecs) ==
    [stmt |-> Stmt("ExprStmt", "endExternalSegment", "", <<>>, 0, "",
                   << GenCall("Selector", segmentName, "End", "", <<>>) >>,
                   1, NoDecs, <<>>, <<>>),
     decs |-> nodeDecs]

endExternalSegment(segmentName, nodeDecs) ==
    LET decs == IF IsNilDecs(nodeDecs) THEN NoDecs
                ELSE [NoDecs EXCEPT !.After = nodeDecs.After,
                                    !.End = nodeDecs.End]
    IN  [stmt |-> Stmt("ExprStmt", "endExternalSegment", "", <<>>, 0, "",
                       << GenCall("Selector", segmentName, "End", "", <<>>) >>,
                       1, decs, <<>>, <<>>),
         decs |-> IF IsNilDecs(nodeDecs) THEN nodeDecs
                  ELSE [nodeDecs EXCEPT !.After = None, !.End = <<>>]]

\* Faulty variant of addTxnToRequestContext: the request is declared anew
\* (:=), it is not assigned
addTxnToRequestContext_Define(request, txnVar, nodeDecs) ==
    LET decs == IF IsNilDecs(nodeDecs) THEN NoDecs
                ELSE [NoDecs EXCEPT !.Before = nodeDecs.Before,
                                    !.Start = nodeDecs.Start]
    IN  [stmt |-> Stmt("AssignStmt", "addTxnToRequestContext", "DEFINE",
                       << Lhs(request.name, TRUE, "*net/http.Request") >>,
                       1, "call",
                       << GenCall("Ident", "", "RequestWithTransactionContext",
                                  newrelicAgentImport,
                                  <<request, NewIdent(txnVar)>>) >>,
                       1, decs, <<>>, <<>>),
         decs |-> IF IsNilDecs(nodeDecs) THEN nodeDecs
                  ELSE [nodeDecs EXCEPT !.Before = None, !.Start = <<>>]]

addTxnToRequestContext(request, txnVar, nodeDecs) ==
    LET decs == IF IsNilDecs(nodeDecs) THEN NoDecs
                ELSE [NoDecs EXCEPT !.Before = nodeDecs.Before,
                                    !.Start = nodeDecs.Start]
    IN  [stmt |-> Stmt("AssignStmt", "addTxnToRequestContext", "ASSIGN",
                       << Lhs(request.name, TRUE, "*net/http.Request") >>,
                       1, "call",
                       << GenCall("Ident", "", "RequestWithTransactionContext",
                                  newrelicAgentImport,
                                  <<request, NewIdent(txnVar)>>) >>,
                       1, decs, <<>>, <<>>),
         decs |-> IF IsNilDecs(nodeDecs) THEN nodeDecs
                  ELSE [nodeDecs EXCEPT !.Before = None, !.Start = <<>>]]

\* Faulty variant of getHttpResponseVariable: the type looked for is the
\* struct, not the pointer
getHttpResponseVariable_Struct(stmt) ==
    LET hits == {i \in 1..Len(stmt.lhs) : stmt.lhs[i].type = "net/http.Response"}
    IN  IF stmt.node = "AssignStmt" /\ hits # {}
        THEN [found |-> TRUE,
              expr |-> stmt.lhs[CHOOSE i \in hits : \A j \in hits : i <= j]]
        ELSE [found |-> FALSE, expr |-> Lhs("", FALSE, "")]

\* the first left-hand side whose type is *net/http.Response
getHttpResponseVariable(stmt) ==
    LET hits == {i \in 1..Len(stmt.lhs) : stmt.lhs[i].type = ResponseType}
    IN  IF stmt.node = "AssignStmt" /\ hits # {}
        THEN [found |-> TRUE,
              expr |-> stmt.lhs[CHOOSE i \in hits : \A j \in hits : i <= j]]
        ELSE [found |-> FALSE, expr |-> Lhs("", FALSE, "")]

ExternalHttpCall(m, c, txnName) ==
    LET stmt == Node(c)
        hits == Stops(stmt.calls,
                      {i \in 1..Len(stmt.calls) : GetNetHttpMethod(stmt.calls[i]) = httpDo})
    IN  IF Index(c) < 0 \/ hits = {} THEN Result(c, m, FALSE)
        ELSE
        LET call == stmt.calls[Last(hits)]
            clientVar == GetNetHttpClientVariableName(call)
            requestObject == call.args[1]
        IN  IF clientVar = httpDefaultClientVariable
            THEN LET segmentName == "externalSegment"
                     s == startExternalSegment(requestObject, txnName, segmentName, stmt.decs)
                     c1 == InsertBefore(SetDecs(c, s.decs), s.stmt)
                     e == endExternalSegment(segmentName, Node(c1).decs)
                     c2 == InsertAfter(SetDecs(c1, e.decs), e.stmt)
                     responseVar == getHttpResponseVariable(Node(c2))
                     c3 == IF responseVar.found
                           THEN InsertAfter(c2, captureHttpResponse(segmentName, responseVar.expr))
                           ELSE c2
                 IN  Result(c3, AddImport(m, newrelicAgentImport), TRUE)
            ELSE LET a == addTxnToRequestContext(requestObject, txnName, stmt.decs)
                 IN  Result(InsertBefore(SetDecs(c, a.decs), a.stmt),
                            AddImport(m, newrelicAgentImport), TRUE)

\* every handler registration Inspect stops at is wrapped
WrapNestedHandleFunction(m, c, txnName) ==
    LET stmt == Node(c)
        hits == Stops(stmt.calls,
                      {i \in 1..Len(stmt.calls) : IsHandleCall(stmt.calls[i])})
        wrapped == [i \in 1..Len(stmt.calls) |->
                      IF i \in hits
                      THEN [stmt.calls[i] EXCEPT !.args =
                               WrapHandleFuncArgs(Expr("Call", txnName, "Application", "", <<>>), @)]
                      ELSE stmt.calls[i]]
    IN  IF hits = {} THEN Result(c, m, FALSE)
        ELSE Result(SetNode(c, [stmt EXCEPT !.calls = wrapped]),
                    AddImport(m, newrelicAgentImport), TRUE)

---------------------------------------------------------------------------
(* The statements the transforms are tried on *)

MaxLines == 2

Digits == <<"1", "2", "3", "4", "5">>

\* The k-th comment line on one side of user statement id
Comment(side, id, k) == "// " \o side \o " " \o Digits[id] \o "." \o Digits[k]

Comments(side, id, n) == [k \in 1..n |-> Comment(side, id, k)]

\* The decorations a user statement may carry
UserDecs(id) ==
    {[Before |-> IF n > 0 THEN EmptyLine ELSE NewLine,
      Start |-> Comments("lead", id, n),
      End |-> Comments("trail", id, t),
      After |-> IF t > 0 THEN EmptyLine ELSE NewLine] :
        n \in 0..MaxLines, t \in {0, MaxLines}}

User(id, node, tok, lhs, rhsN, rhs, calls, top, decs) ==
    [Stmt(node, "user", tok, lhs, rhsN, rhs, calls, top, decs, <<>>, <<>>)
        EXCEPT !.id = id]

HttpResults == <<ResponseType, ErrorType>>

DoCall(x, xPath, req) ==
    Call("Selector", x, xPath, httpDo, netHttpPath, <<NewIdent(req)>>, 0,
         HttpResults, TRUE)

HttpFunc(name) ==
    Call("Ident", "", "", name, netHttpPath, <<BasicLit("url")>>, 0,
         HttpResults, TRUE)

HandleCall(form, x, name, nargs) ==
    Call(form, x, IF x = "" THEN "" ELSE "main", name, netHttpPath,
         SubSeq(<<BasicLit("/"), NewIdent("index"), NewIdent("extra")>>, 1, nargs),
         0, <<>>, TRUE)

OtherCall(name, path, results) ==
    Call("Ident", "", "", name, path, <<BasicLit("arg")>>, 0, results, TRUE)

RespErr(r, e) == << Lhs(r, TRUE, ResponseType), Lhs(e, TRUE, ErrorType) >>

\* The statement shapes, without identity and decorations
Shapes ==
    LET A(tok, lhs, rhsN, rhs, calls, top) ==
            User(1, "AssignStmt", tok, lhs, rhsN, rhs, calls, top, NoDecs)
        E(calls) == User(1, "ExprStmt", "", <<>>, 0, "", calls, 1, NoDecs)
    IN
    { \* resp, err := http.DefaultClient.Do(req)
      A("DEFINE", RespErr("resp", "err"), 1, "call",
        <<DoCall(httpDefaultClientVariable, netHttpPath, "req")>>, 1),
      \* resp, _ := http.DefaultClient.Do(req)
      A("DEFINE", RespErr("resp", "_"), 1, "call",
        <<DoCall(httpDefaultClientVariable, netHttpPath, "req")>>, 1),
      \* _, err = http.DefaultClient.Do(request)
      A("ASSIGN", <<Lhs("_", TRUE, ""), Lhs("err", TRUE, ErrorType)>>, 1, "call",
        <<DoCall(httpDefaultClientVariable, netHttpPath, "request")>>, 1),
      \* http.DefaultClient.Do(req)
      E(<<DoCall(httpDefaultClientVariable, netHttpPath, "req")>>),
      \* resp, err := client.Do(req)
      A("DEFINE", RespErr("resp", "err"), 1, "call",
        <<DoCall("client", "main", "req")>>, 1),
      \* client.Do(req)
      E(<<DoCall("client", "main", "req")>>),
      \* resp, err := http.Get(url)
      A("DEFINE", RespErr("resp", "err"), 1, "call", <<HttpFunc(httpGet)>>, 1),
      \* http.Post(url)
      E(<<HttpFunc(httpPost)>>),
      \* log.Println(http.Head(url))
      E(<<OtherCall("Println", "log", <<>>),
          [HttpFunc(httpHead) EXCEPT !.under = 1]>>),
      \* return http.PostForm(url)
      User(1, "ReturnStmt", "", <<>>, 0, "", <<HttpFunc(httpPostForm)>>, 1, NoDecs),
      \* resp, err := client.Get(url)
      A("DEFINE", RespErr("resp", "err"), 1, "call",
        <<Call("Selector", "client", "main", httpGet, netHttpPath,
               <<BasicLit("url")>>, 0, HttpResults, TRUE)>>, 1),
      \* client := &http.Client{}
      A("DEFINE", <<Lhs("client", TRUE, "*net/http.Client")>>, 1, "clientLit", <<>>, 0),
      \* client = &http.Client{}
      A("ASSIGN", <<Lhs("client", TRUE, "*net/http.Client")>>, 1, "clientLit", <<>>, 0),
      \* client2 := client
      [A("DEFINE", <<Lhs("client2", TRUE, "*net/http.Client")>>, 1, "expr", <<>>, 0)
          EXCEPT !.x = "client"],
      \* f, err := os.Open(name)
      A("DEFINE", <<Lhs("f", TRUE, "*os.File"), Lhs("err", TRUE, ErrorType)>>, 1,
        "call", <<OtherCall("Open", "os", <<"*os.File", ErrorType>>)>>, 1),
      \* info.err = check(name)
      A("ASSIGN", <<Lhs("info.err", FALSE, ErrorType)>>, 1,
        "call", <<OtherCall("check", "", <<ErrorType>>)>>, 1),
      \* n := len(name)
      A("DEFINE", <<Lhs("n", TRUE, "int")>>, 1,
        "call", <<OtherCall("len", "", <<"int">>)>>, 1),
      \* a, err := x, y
      [A("DEFINE", <<Lhs("a", TRUE, "int"), Lhs("err", TRUE, ErrorType)>>, 2,
         "expr", <<>>, 0) EXCEPT !.x = "x, y"],
      \* app, err := newrelic.NewApplication(cfg)
      A("DEFINE", <<Lhs("app", TRUE, "*newrelic.Application"), Lhs("err", TRUE, ErrorType)>>,
        1, "call",
        <<OtherCall("NewApplication", newrelicAgentImport,
                    <<"*newrelic.Application", ErrorType>>)>>, 1),
      \* http.HandleFunc("/", index)
      E(<<HandleCall("Ident", "", httpHandleFunc, 2)>>),
      \* mux.Handle("/", index)
      E(<<HandleCall("Selector", "mux", httpMuxHandle, 2)>>),
      \* http.HandleFunc("/", index, extra): not a registration of two arguments
      E(<<HandleCall("Ident", "", httpHandleFunc, 3)>>) }

\* A neighbour statement with its own comments: x := 1
Neighbour(id) ==
    [User(id, "AssignStmt", "DEFINE", <<Lhs("x", TRUE, "int")>>, 1, "expr",
          <<>>, 0,
          [Before |-> NewLine, Start |-> Comments("lead", id, 1),
           End |-> Comments("trail", id, 1), After |-> NewLine])
        EXCEPT !.x = "1"]

ListInputs ==
    { [list |-> (IF before THEN <<Neighbour(1)>> ELSE <<>>)
                \o << [s EXCEPT !.id = 2, !.decs = d, !.inList = inList] >>
                \o (IF after THEN <<Neighbour(3)>> ELSE <<>>),
       i |-> IF before THEN 2 ELSE 1] :
        s \in Shapes, d \in UserDecs(2), inList \in BOOLEAN,
        before \in BOOLEAN, after \in {TRUE} }

Packages == {"main", "lib"}

\* The manager the driver constructs over the declarations decls: the
\* package index (decls, with the tracedWithTransactionParameter flag of
\* each record in traced), the imports to add to each package, the package
\* in focus. entries counts the calls of TraceFunction per declaration and
\* overflow records that the recursion exhausted the stack.
NewManager(decls) ==
    [appName |-> "demo",
     agentVariableName |-> defaultAgentVariableName,
     currentPackage |-> "main",
     imports |-> [p \in Packages |-> {}],
     decls |-> decls,
     traced |-> [f \in DOMAIN decls |-> FALSE],
     entries |-> [f \in DOMAIN decls |-> 0],
     overflow |-> FALSE]

Transforms == {"ExternalHttpCall", "NoticeError", "InstrumentHttpClient",
               "CannotInstrumentHttpMethod", "WrapNestedHandleFunction"}

InitList ==
    /\ mgr = NewManager(<<>>)
    /\ pc = "list"
    /\ visited = {}
    /\ run = 1
    /\ out1 = <<>>
    /\ log = <<>>
    /\ \E c \in ListInputs, t \in {defaultTxnName, handlerTxnName} :
          /\ cur = c
          /\ orig = [list |-> c.list, txn |-> t]
    /\ applied = <<>>
    /\ ret = FALSE

NotYet(t) == pc = "list" /\ \A k \in 1..Len(applied) : applied[k] # t

Took(t, r) ==
    /\ cur' = r.c
    /\ mgr' = r.m
    /\ ret' = r.ok
    /\ applied' = Append(applied, t)
    /\ UNCHANGED <<pc, visited, run, out1, log, orig>>

ApplyExternalHttpCall ==
    /\ NotYet("ExternalHttpCall")
    /\ Took("ExternalHttpCall", ExternalHttpCall(mgr, cur, orig.txn))

ApplyNoticeError ==
    /\ NotYet("NoticeError")
    /\ Took("NoticeError", NoticeError(mgr, cur, orig.txn))

ApplyWrapNestedHandleFunction ==
    /\ NotYet("WrapNestedHandleFunction")
    /\ Took("WrapNestedHandleFunction", WrapNestedHandleFunction(mgr, cur, orig.txn))

ApplyInstrumentHttpClient ==
    /\ NotYet("InstrumentHttpClient")
    /\ Took("InstrumentHttpClient", InstrumentHttpClient(mgr, cur))

ApplyCannotInstrumentHttpMethod ==
    /\ NotYet("CannotInstrumentHttpMethod")
    /\ Took("CannotInstrumentHttpMethod", CannotInstrumentHttpMethod(mgr, cur))

NextList ==
    \/ ApplyExternalHttpCall
    \/ ApplyNoticeError
    \/ ApplyWrapNestedHandleFunction
    \/ ApplyInstrumentHttpClient
    \/ ApplyCannotInstrumentHttpMethod

SpecList == InitList /\ [][NextList]_vars

---------------------------------------------------------------------------
(* The two rewrites of a handler registration, applied again and again *)

MaxWraps == 3

\* WrapHandleFunc(v.X, manager, c), as its caller applies it to the
\* expression of an *dst.ExprStmt; it returns nothing
ApplyWrapHandleFunc ==
    /\ pc = "list"
    /\ Len(applied) < MaxWraps
    /\ Took("WrapHandleFunc",
            Result(IF Node(cur).node = "ExprStmt"
                   THEN SetNode(cur, WrapHandleFunc(Node(cur), mgr))
                   ELSE cur,
                   mgr, FALSE))

WrapNestedHandleFunctionAgain ==
    /\ pc = "list"
    /\ Len(applied) < MaxWraps
    /\ Took("WrapNestedHandleFunction", WrapNestedHandleFunction(mgr, cur, orig.txn))

NextHandle ==
    \/ ApplyWrapHandleFunc
    \/ WrapNestedHandleFunctionAgain

SpecHandle == InitList /\ [][NextHandle]_vars

---------------------------------------------------------------------------
(* The package index and the manager *)

MaxDepth == 3

\* FunctionIdentity: (package path, function name)
Key(pkg, name) == pkg \o "." \o name

\* dst.FuncDecl: recv is the receiver type of a method ("" for a function)
FuncDecl(pkg, recv, name, params, body) ==
    [pkg |-> pkg, recv |-> recv, name |-> name, params |-> params, body |-> body]

SetPackage(m, path) == [m EXCEPT !.currentPackage = path]

UpdateFunctionDeclaration(m, key, decl) == [m EXCEPT !.decls[key] = decl]

AddTxnArgumentToFunctionDecl(m, key, txnName) ==
    IF m.traced[key] THEN m
    ELSE [m EXCEPT !.decls[key].params = Append(@, txnAsParameter(txnName)),
                   !.traced[key] = TRUE]

NoInvocation == [ok |-> FALSE, functionName |-> "", packageName |-> "", key |-> ""]

\* the statement's own expression is a direct call of a function in the index
GetPackageFunctionInvocation(m, stmt) ==
    IF stmt.top = 0 THEN NoInvocation
    ELSE LET call == stmt.calls[stmt.top]
             pkg == IF call.path = "" THEN m.currentPackage ELSE call.path
         IN  IF call.form = "Ident" /\ Key(pkg, call.name) \in DOMAIN m.decls
             THEN [ok |-> TRUE, functionName |-> call.name, packageName |-> pkg,
                   key |-> Key(pkg, call.name)]
             ELSE NoInvocation

ShouldInstrumentFunction(m, inv) == inv.ok /\ ~m.traced[inv.key]

HasTxnArgument(call, txnName) ==
    \E k \in 1..Len(call.args) :
        call.args[k].e = "Ident" /\ call.args[k].name = txnName

RequiresTransactionArgument(m, inv, stmt, txnName) ==
    /\ inv.ok
    /\ m.traced[inv.key]
    /\ ~HasTxnArgument(stmt.calls[stmt.top], txnName)

AppendArgument(stmt, arg) == [stmt EXCEPT !.calls[stmt.top].args = Append(@, arg)]

PrependStatement(m, key, stmt) == [m EXCEPT !.decls[key].body = <<stmt>> \o @]

IsBlock(stmt) == stmt.node \in {"IfStmt", "ForStmt", "BlockStmt"}

IsGoLiteral(stmt) == stmt.node = "GoStmt" /\ stmt.rhs = "funcLit"

---------------------------------------------------------------------------
(* The function tracer *)

RECURSIVE TraceFunction(_, _, _, _)
RECURSIVE TraceList(_, _, _, _, _)

\* The callee key has been traced (t is what TraceFunction returned): when
\* the trace modified it, it gets the transaction parameter and its
\* segment timer; the package in focus is restored
CalleeTraced(t, key, txnName, segment, rootPkg) ==
    IF t.m.overflow THEN t.m
    ELSE IF t.modified
    THEN SetPackage(
           PrependStatement(
             AddImport(AddTxnArgumentToFunctionDecl(t.m, key, txnName),
                       newrelicAgentImport),
             key, deferSegment(segment, txnName)),
           rootPkg)
    ELSE SetPackage(t.m, rootPkg)

\* the transaction is passed at the call site when the callee takes one
PassTransaction(m, c, inv, txnName, arg) ==
    IF ~m.overflow /\ RequiresTransactionArgument(m, inv, Node(c), txnName)
    THEN Result(SetNode(c, AppendArgument(Node(c), arg)), m, TRUE)
    ELSE Result(c, m, FALSE)

\* the literal at the cursor, its body traced (inner)
GoLiteralTraced(c, inner, txnName) ==
    Result(SetNode(c, [Node(c) EXCEPT
                         !.params = Append(@, txnAsParameter(txnName)),
                         !.calls[Node(c).top].args = Append(@, txnNewGoroutine(txnName)),
                         !.body = <<deferSegment("async literal", txnName)>>
                                  \o inner.list]),
           inner.m, TRUE)

OrOk(r, ok) == Result(r.c, r.m, ok \/ r.ok)

\* R2, then R3
TraceR3(r2, txnName) == OrOk(WrapNestedHandleFunction(r2.m, r2.c, txnName), r2.ok)

TraceBeforeCall(m, c, txnName) == TraceR3(ExternalHttpCall(m, c, txnName), txnName)

\* What the statement makes the tracer descend into: the body of a literal
\* launched with go (traced with the literal's own binding), or the user
\* function the statement calls, if it is not traced yet
Descend(m, stmt, inv, txnName, fuel) ==
    IF IsGoLiteral(stmt)
    THEN TraceList(AddImport(m, newrelicAgentImport), stmt.body, 1, txnName, fuel)
    ELSE IF ShouldInstrumentFunction(m, inv)
    THEN TraceFunction(SetPackage(m, inv.packageName), inv.key, txnName, fuel - 1)
    ELSE [m |-> m, modified |-> FALSE]

\* R4 and the call site, t being what the descent returned: go with a
\* literal; go f(...) passes a new goroutine handle and f's segment is
\* "async f"; f(...) passes the transaction
TraceCall(m, c, inv, t, txnName) ==
    IF IsGoLiteral(Node(c)) THEN GoLiteralTraced(c, t, txnName)
    ELSE IF ~inv.ok THEN Result(c, m, FALSE)
    ELSE PassTransaction(
           IF ~ShouldInstrumentFunction(m, inv) THEN m
           ELSE CalleeTraced(t, inv.key, txnName,
                             IF Node(c).node = "GoStmt"
                             THEN "async " \o inv.functionName
                             ELSE inv.functionName,
                             m.currentPackage),
           c, inv, txnName,
           IF Node(c).node = "GoStmt" THEN txnNewGoroutine(txnName)
           ELSE NewIdent(txnName))

\* R1, unless the call of the statement was given the transaction
TraceAfterCall(r4, txnName) ==
    IF r4.ok THEN r4 ELSE NoticeError(r4.m, r4.c, txnName)

\* The transforms applied to a statement, in order: R2, R3 (r3 is their
\* result), the descent and R4, R1
TraceStatementAfter(r3, inv, t, txnName) ==
    OrOk(TraceAfterCall(TraceCall(r3.m, r3.c, inv, t, txnName), txnName), r3.ok)

SetBody(c, body) == SetNode(c, [Node(c) EXCEPT !.body = body])

\* the position of the next node: the nodes inserted at position i of a
\* list that had len elements are not walked
NextIndex(c, len, i) == i + 1 + (Len(c.list) - len)

TraceListRest(rest, ok) ==
    [m |-> rest.m, list |-> rest.list, modified |-> ok \/ rest.modified]

TraceListSub(r, sub, len, i, txnName, fuel) ==
    IF sub.m.overflow THEN [m |-> sub.m, list |-> r.c.list, modified |-> FALSE]
    ELSE TraceListRest(TraceList(sub.m, SetBody(r.c, sub.list).list,
                                 NextIndex(r.c, len, i), txnName, fuel),
                       r.ok \/ sub.modified)

\* the nested block of the statement is walked, then the rest of the list
TraceBlock(r, len, i, txnName, fuel) ==
    TraceListSub(r,
                 IF IsBlock(Node(r.c)) /\ ~r.m.overflow
                 THEN TraceList(r.m, Node(r.c).body, 1, txnName, fuel)
                 ELSE [m |-> r.m, list |-> Node(r.c).body, modified |-> FALSE],
                 len, i, txnName, fuel)

TraceAfterDescend(r3, inv, t, len, i, txnName, fuel) ==
    IF t.m.overflow THEN [m |-> t.m, list |-> r3.c.list, modified |-> FALSE]
    ELSE TraceBlock(TraceStatementAfter(r3, inv, t, txnName), len, i, txnName, fuel)

TraceDescend(r3, inv, len, i, txnName, fuel) ==
    TraceAfterDescend(r3, inv, Descend(r3.m, Node(r3.c), inv, txnName, fuel),
                      len, i, txnName, fuel)

TraceAt(r3, len, i, txnName, fuel) ==
    TraceDescend(r3, GetPackageFunctionInvocation(r3.m, Node(r3.c)),
                 len, i, txnName, fuel)

\* Walk the statements of list from position i on, nested blocks included
TraceList(m, list, i, txnName, fuel) ==
    IF i > Len(list) \/ m.overflow THEN [m |-> m, list |-> list, modified |-> FALSE]
    ELSE TraceAt(TraceBeforeCall(m, Cursor(list, i), txnName),
                 Len(list), i, txnName, fuel)

TraceFunctionDone(r, key) ==
    [m |-> IF r.m.overflow THEN r.m ELSE [r.m EXCEPT !.decls[key].body = r.list],
     modified |-> r.modified]

\* fuel is the room left on the stack; entries counts the calls
TraceFunction(m, key, txnName, fuel) ==
    IF fuel = 0 THEN [m |-> [m EXCEPT !.overflow = TRUE], modified |-> FALSE]
    ELSE IF m.traced[key]
    THEN [m |-> [m EXCEPT !.entries[key] = @ + 1], modified |-> FALSE]
    ELSE TraceFunctionDone(TraceList([m EXCEPT !.entries[key] = @ + 1],
                                     m.decls[key].body, 1, txnName, fuel),
                           key)

---------------------------------------------------------------------------
(* Stateless tracing functions: the entry points *)

RECURSIVE WalkMain(_, _, _, _)

\* Faulty variant of MainCalleeTraced: the package in focus stays the
\* callee's
MainCalleeTraced_NoRestore(t, key, rootPkg) ==
    IF t.m.overflow THEN t.m
    ELSE IF t.modified
    THEN AddImport(AddTxnArgumentToFunctionDecl(t.m, key, defaultTxnName),
                   newrelicAgentImport)
    ELSE t.m

\* the callee of a call statement of main has been traced
MainCalleeTraced(t, key, rootPkg) ==
    IF t.m.overflow THEN t.m
    ELSE IF t.modified
    THEN SetPackage(AddImport(AddTxnArgumentToFunctionDecl(t.m, key, defaultTxnName),
                              newrelicAgentImport),
                    rootPkg)
    ELSE SetPackage(t.m, rootPkg)

\* the call statement of main is wrapped in a transaction
WrapInTransaction(m, c, invInfo, txnVarName, txnStarted) ==
    SetNode(
      InsertAfter(
        InsertBefore(c, startTransaction(m.agentVariableName, txnVarName,
                                         invInfo.functionName, txnStarted)),
        endTransaction(txnVarName)),
      AppendArgument(Node(c), NewIdent(defaultTxnName)))

MainHandleFunc(m, c, txnStarted) ==
    [m |-> m, c |-> SetNode(c, WrapHandleFunc(Node(c), m)), txnStarted |-> txnStarted]

MainPassTransaction(m, c, invInfo, txnVarName, txnStarted) ==
    IF /\ ~m.overflow
       /\ RequiresTransactionArgument(m, invInfo, Node(c), txnVarName)
       /\ Index(c) >= 0
    THEN MainHandleFunc(m, WrapInTransaction(m, c, invInfo, txnVarName, txnStarted), TRUE)
    ELSE MainHandleFunc(m, c, txnStarted)

\* t is what TraceFunction returned for the function the statement calls
MainInvocation(m, c, invInfo, t, txnStarted) ==
    MainPassTransaction(
        IF ~ShouldInstrumentFunction(m, invInfo) THEN m
        ELSE MainCalleeTraced(t, invInfo.key, m.currentPackage),
        c, invInfo, defaultTxnName, txnStarted)

MainTrace(m, invInfo) ==
    IF ShouldInstrumentFunction(m, invInfo)
    THEN TraceFunction(SetPackage(m, invInfo.packageName), invInfo.key,
                       defaultTxnName, MaxDepth)
    ELSE [m |-> m, modified |-> FALSE]

WalkMainRest(r, sub, len, i) ==
    WalkMain(sub.m, SetBody(r.c, sub.list).list, NextIndex(r.c, len, i), sub.txnStarted)

\* the children of the node are walked, then the rest of the list
WalkMainAt(r, len, i) ==
    WalkMainRest(r,
                 IF Node(r.c).body # <<>> /\ ~r.m.overflow
                 THEN WalkMain(r.m, Node(r.c).body, 1, r.txnStarted)
                 ELSE [m |-> r.m, list |-> Node(r.c).body, txnStarted |-> r.txnStarted],
                 len, i)

\* The callback InstrumentMain applies to an *dst.ExprStmt of main
MainExprStmt(m, c, invInfo, t, txnStarted, len, i) ==
    IF t.m.overflow THEN [m |-> t.m, list |-> c.list, txnStarted |-> txnStarted]
    ELSE WalkMainAt(MainInvocation(m, c, invInfo, t, txnStarted), len, i)

MainCall(m, c, invInfo, txnStarted, len, i) ==
    MainExprStmt(m, c, invInfo, MainTrace(m, invInfo), txnStarted, len, i)

\* dstutil.Apply over main: every node in source order, the nodes inserted
\* by the callback excluded
WalkMain(m, list, i, txnStarted) ==
    IF i > Len(list) \/ m.overflow
    THEN [m |-> m, list |-> list, txnStarted |-> txnStarted]
    ELSE IF list[i].node = "ExprStmt"
    THEN MainCall(m, Cursor(list, i), GetPackageFunctionInvocation(m, list[i]),
                  txnStarted, Len(list), i)
    ELSE WalkMainAt([m |-> m, c |-> Cursor(list, i), txnStarted |-> txnStarted],
                    Len(list), i)

MainWalked(w, key) ==
    IF w.m.overflow THEN w.m ELSE [w.m EXCEPT !.decls[key].body = w.list]

InstrumentMain(m, key) ==
    IF m.decls[key].name # "main" THEN m
    ELSE MainWalked(
           WalkMain(AddImport(m, newrelicAgentImport),
                    createAgentAST(m.appName, m.agentVariableName)
                        \o m.decls[key].body
                        \o <<shutdownAgent(m.agentVariableName)>>,
                    1, FALSE),
           key)

HandlerTraced(t, key, txnName) ==
    IF t.m.overflow THEN [m |-> t.m, ok |-> "none"]
    ELSE IF t.modified
    THEN [m |-> UpdateFunctionDeclaration(
                   t.m, key, defineTxnFromCtx(t.m.decls[key], txnName)),
          ok |-> "modified"]
    ELSE [m |-> t.m, ok |-> "unmodified"]

\* ok: what TraceFunction reported ("none" when the tracer was not called)
InstrumentHandleFunction(m, key) ==
    IF m.overflow \/ ~isHttpHandler(m.decls[key]) THEN [m |-> m, ok |-> "none"]
    ELSE HandlerTraced(TraceFunction(m, key, handlerTxnName, MaxDepth),
                       key, handlerTxnName)

---------------------------------------------------------------------------
(* The driver *)

RECURSIVE StatelessList(_, _, _)

StatelessRest(r, sub, len, i) ==
    StatelessList(sub.m, SetBody(r.c, sub.list).list, NextIndex(r.c, len, i))

StatelessAt(r, len, i) ==
    StatelessRest(r,
                  IF Node(r.c).body # <<>> THEN StatelessList(r.m, Node(r.c).body, 1)
                  ELSE [m |-> r.m, list |-> Node(r.c).body],
                  len, i)

StatelessNode(t2) == CannotInstrumentHttpMethod(t2.m, t2.c)

\* InstrumentHttpClient and CannotInstrumentHttpMethod at every statement
StatelessList(m, list, i) ==
    IF i > Len(list) THEN [m |-> m, list |-> list]
    ELSE StatelessAt(StatelessNode(InstrumentHttpClient(m, Cursor(list, i))),
                     Len(list), i)

Keys == DOMAIN mgr.decls

\* The declarations are met in source order (orig.order): the node of a
\* declaration first, its statements next
NextKey == orig.order[(Cardinality(visited) \div 2) + 1]

\* The emitted source loaded again: the type information knows every node
RECURSIVE TextList(_)
TextList(list) ==
    [i \in 1..Len(list) |->
        [list[i] EXCEPT
            !.calls = [k \in 1..Len(list[i].calls) |->
                          [list[i].calls[k] EXCEPT !.typed = TRUE]],
            !.body = TextList(list[i].body)]]

Text(decls) == [key \in DOMAIN decls |->
                   [decls[key] EXCEPT !.body = TextList(decls[key].body)]]

DeclDone(h, key) ==
    /\ mgr' = h.m
    /\ pc' = IF h.m.overflow THEN "crashed" ELSE "walk"
    /\ log' = [log EXCEPT ![key] = h.ok]
    /\ visited' = visited \cup {<<"decl", key>>}

\* The walk reaches the declaration NextKey: InstrumentMain, then
\* InstrumentHandleFunction
DeclNode ==
    /\ pc = "walk"
    /\ Cardinality(visited) < 2 * Len(orig.order)
    /\ <<"decl", NextKey>> \notin visited
    /\ DeclDone(InstrumentHandleFunction(
                  InstrumentMain(SetPackage(mgr, mgr.decls[NextKey].pkg), NextKey),
                  NextKey),
                NextKey)
    /\ UNCHANGED <<run, out1, cur, applied, ret, orig>>

StmtsDone(r, key) ==
    /\ mgr' = [r.m EXCEPT !.decls[key].body = r.list]
    /\ visited' = visited \cup {<<"stmts", key>>}

\* The walk goes through the statements of the declaration NextKey
StmtNodes ==
    /\ pc = "walk"
    /\ Cardinality(visited) < 2 * Len(orig.order)
    /\ <<"decl", NextKey>> \in visited
    /\ StmtsDone(StatelessList(SetPackage(mgr, mgr.decls[NextKey].pkg),
                               mgr.decls[NextKey].body, 1),
                 NextKey)
    /\ UNCHANGED <<pc, run, out1, log, cur, applied, ret, orig>>

\* Every declaration and statement was visited: the source is emitted
Finish ==
    /\ pc = "walk"
    /\ Cardinality(visited) = 2 * Len(orig.order)
    /\ pc' = "done"
    /\ out1' = IF run = 1 THEN Text(mgr.decls) ELSE out1
    /\ UNCHANGED <<mgr, visited, run, log, cur, applied, ret, orig>>

\* The tool is run again, on the source it emitted
Rerun ==
    /\ pc = "done"
    /\ run = 1
    /\ run' = 2
    /\ pc' = "walk"
    /\ mgr' = NewManager(out1)
    /\ visited' = {}
    /\ log' = [key \in Keys |-> "none"]
    /\ UNCHANGED <<out1, cur, applied, ret, orig>>

---------------------------------------------------------------------------
(* The programs the transformation is run on *)

UserCall(name, path, results) == OtherCall(name, path, results)

ExprOf(call) == User(1, "ExprStmt", "", <<>>, 0, "", <<call>>, 1, NoDecs)

\* f(arg)
sCall(name, path) == ExprOf(UserCall(name, path, <<>>))

\* loop: f(arg)    the call is the statement of a label, not a list element
sLabel(name, path) == [sCall(name, path) EXCEPT !.inList = FALSE]

\* err := f(arg)
sAssign(name, path) ==
    User(1, "AssignStmt", "DEFINE", <<Lhs("err", TRUE, ErrorType)>>, 1, "call",
         <<UserCall(name, path, <<ErrorType>>)>>, 1, NoDecs)

\* go f(arg)
sGo(name, path) ==
    User(1, "GoStmt", "", <<>>, 0, "", <<UserCall(name, path, <<>>)>>, 1, NoDecs)

\* go func() { body }()
sGoLit(body) ==
    [User(1, "GoStmt", "", <<>>, 0, "funcLit",
          <<Call("Lit", "", "", "", "", <<>>, 0, <<>>, TRUE)>>, 1, NoDecs)
        EXCEPT !.body = body]

\* if ok { body }
sIf(body) ==
    [User(1, "IfStmt", "", <<>>, 0, "", <<>>, 0, NoDecs) EXCEPT !.body = body]

\* http.DefaultClient.Do(req)
sDo == ExprOf(DoCall(httpDefaultClientVariable, netHttpPath, "req"))

\* f, err := os.Open(name)
sOpen ==
    User(1, "AssignStmt", "DEFINE",
         <<Lhs("f", TRUE, "*os.File"), Lhs("err", TRUE, ErrorType)>>, 1, "call",
         <<OtherCall("Open", "os", <<"*os.File", ErrorType>>)>>, 1, NoDecs)

\* resp, err := http.Get(url)
sGet ==
    User(1, "AssignStmt", "DEFINE", RespErr("resp", "err"), 1, "call",
         <<HttpFunc(httpGet)>>, 1, NoDecs)

\* client := &http.Client{}
sClient ==
    User(1, "AssignStmt", "DEFINE", <<Lhs("client", TRUE, "*net/http.Client")>>,
         1, "clientLit", <<>>, 0, NoDecs)

\* http.HandleFunc("/", index)
sHandle == ExprOf(HandleCall("Ident", "", httpHandleFunc, 2))

\* how a function of package main names the function g of package gp
PathTo(gp) == IF gp = "main" THEN "" ELSE gp

MainBodies(gp) ==
    { <<>>,
      <<sCall("f", "")>>,
      <<sCall("f", ""), sCall("g", PathTo(gp)), sCall("f", "")>>,
      <<sLabel("f", "")>>,
      <<sAssign("f", "")>>,
      <<sHandle, sCall("g", PathTo(gp))>>,
      <<sIf(<<sCall("f", "")>>)>>,
      <<sGo("f", "")>>,
      <<sClient, sGet>> }

HandlerBodies(gp) ==
    { <<>>,
      <<sDo>>,
      <<sCall("f", "")>>,
      <<sGo("f", "")>>,
      <<sGoLit(<<sCall("g", PathTo(gp))>>)>>,
      <<sAssign("f", "")>>,
      <<sGet>>,
      <<sIf(<<sGo("g", PathTo(gp))>>)>> }

FBodies(gp) ==
    { <<>>,
      <<sDo>>,
      <<sCall("g", PathTo(gp))>>,
      <<sCall("f", "")>>,
      <<sOpen, sGo("g", PathTo(gp))>> }

\* a package that main imports can not call back into main
GBodies(gp) ==
    { <<>>, <<sDo>>, <<sOpen>> }
        \cup (IF gp = "main" THEN { <<sCall("f", "")>> } ELSE {})

HandlerParams ==
    << Field(<<"w">>, "net/http.ResponseWriter"), Field(<<"r">>, "*net/http.Request") >>

Program(gp, mb, hb, fb, gb) ==
    (Key("main", "main") :> FuncDecl("main", "", "main", <<>>, mb))
    @@ (Key("main", "index") :> FuncDecl("main", "", "index", HandlerParams, hb))
    @@ (Key("main", "f") :> FuncDecl("main", "", "f", <<Field(<<"name">>, "string")>>, fb))
    @@ (Key(gp, "g") :> FuncDecl(gp, "", "g", <<Field(<<"name">>, "string")>>, gb))

Orders(gp) ==
    { <<Key("main", "main"), Key("main", "index"), Key("main", "f"), Key(gp, "g")>>,
      <<Key("main", "index"), Key("main", "main"), Key(gp, "g"), Key("main", "f")>>,
      <<Key("main", "f"), Key(gp, "g"), Key("main", "index"), Key("main", "main")>> }

Init ==
    /\ \E gp \in Packages :
       \E mb \in MainBodies(gp), hb \in HandlerBodies(gp),
          fb \in FBodies(gp), gb \in GBodies(gp), order \in Orders(gp) :
          /\ mgr = NewManager(Program(gp, mb, hb, fb, gb))
          /\ orig = [decls |-> Program(gp, mb, hb, fb, gb), order |-> order]
          /\ log = [key \in DOMAIN Program(gp, mb, hb, fb, gb) |-> "none"]
    /\ pc = "walk"
    /\ visited = {}
    /\ run = 1
    /\ out1 = <<>>
    /\ cur = Cursor(<<>>, 0)
    /\ applied = <<>>
    /\ ret = FALSE

Next ==
    \/ DeclNode
    \/ StmtNodes
    \/ Finish
    \/ Rerun

Spec == Init /\ [][Next]_vars

---------------------------------------------------------------------------
(* Programs with a second declaration named main, or not, beside main.main *)

\* func main() in package lib, func (Server) main() in package main and in
\* package lib, and func run() in package lib
OtherMains ==
    { d \in { FuncDecl(pkg, recv, name, <<>>, body) :
                pkg \in Packages, recv \in {"", "Server"},
                name \in {"main", "run"}, body \in { <<>>, <<sOpen>> } } :
        d.pkg # "main" \/ d.recv # "" }

\* a method is no function of the package: it has a key of its own
DeclKey(d) == Key(d.pkg, IF d.recv = "" THEN d.name ELSE d.recv \o "." \o d.name)

ProgramWith(gp, mb, fb, other) ==
    Program(gp, mb, <<>>, fb, <<sDo>>) @@ (DeclKey(other) :> other)

InitMains ==
    /\ \E gp \in Packages :
       \E mb \in MainBodies(gp), fb \in FBodies(gp), other \in OtherMains,
          order \in Orders(gp) :
          /\ mgr = NewManager(ProgramWith(gp, mb, fb, other))
          /\ orig = [decls |-> ProgramWith(gp, mb, fb, other),
                     order |-> IF order[1] = Key("main", "main")
                               THEN order \o <<DeclKey(other)>>
                               ELSE <<DeclKey(other)>> \o order]
          /\ log = [key \in DOMAIN ProgramWith(gp, mb, fb, other) |-> "none"]
    /\ pc = "walk"
    /\ visited = {}
    /\ run = 1
    /\ out1 = <<>>
    /\ cur = Cursor(<<>>, 0)
    /\ applied = <<>>
    /\ ret = FALSE

SpecMains == InitMains /\ [][Next]_vars

---------------------------------------------------------------------------
(* The whole transformation, with further calls of
   AddTxnArgumentToFunctionDecl for declarations that are flagged *)

MaxCalls == 2

InitTxn ==
    /\ \E gp \in Packages :
       \E mb \in { <<sCall("f", "")>>,
                   <<sCall("f", ""), sCall("g", PathTo(gp)), sCall("f", "")>> },
          hb \in { <<sCall("f", "")>>, <<sGo("f", "")>> },
          fb \in { <<sDo>>, <<sCall("g", PathTo(gp))>> },
          order \in Orders(gp) :
          /\ mgr = NewManager(Program(gp, mb, hb, fb, <<sDo>>))
          /\ orig = [decls |-> Program(gp, mb, hb, fb, <<sDo>>), order |-> order]
          /\ log = [key \in DOMAIN Program(gp, mb, hb, fb, <<sDo>>) |-> "none"]
    /\ pc = "walk"
    /\ visited = {}
    /\ run = 1
    /\ out1 = <<>>
    /\ cur = Cursor(<<>>, 0)
    /\ applied = <<>>
    /\ ret = FALSE

\* one more call for a declaration whose flag is set, as InstrumentMain
\* makes for a callee the tracer has dealt with, under either name
AddTxnArgumentAgain ==
    /\ pc \in {"walk", "done"}
    /\ Len(applied) < MaxCalls
    /\ \E key \in Keys, txnName \in {defaultTxnName, handlerTxnName} :
          /\ mgr.traced[key]
          /\ mgr' = AddTxnArgumentToFunctionDecl(mgr, key, txnName)
          /\ applied' = Append(applied, key)
    /\ UNCHANGED <<pc, visited, run, out1, log, cur, ret, orig>>

NextTxn ==
    \/ DeclNode
    \/ StmtNodes
    \/ Finish
    \/ AddTxnArgumentAgain

SpecTxn == InitTxn /\ [][NextTxn]_vars

---------------------------------------------------------------------------
(* Nodes that are not elements of a statement list: the transforms at such
   a node, and the whole transformation of programs whose main has a
   labelled call *)

InitInvalidIndex ==
    \/ InitList /\ Index(cur) < 0
    \/ /\ Init
       /\ \E k \in 1..Len(mgr.decls[Key("main", "main")].body) :
             ~mgr.decls[Key("main", "main")].body[k].inList

NextInvalidIndex ==
    \/ Next
    \/ NextList

SpecInvalidIndex == InitInvalidIndex /\ [][NextInvalidIndex]_vars

---------------------------------------------------------------------------
(* Programs whose function index has any parameter list *)

MaxFields == 3

\* w http.ResponseWriter; r, req *http.Request; r, r2 *http.Request (one
\* field, two names); an unnamed *http.Request and http.ResponseWriter;
\* x string
ParamFields ==
    { Field(<<"w">>, "net/http.ResponseWriter"), Field(<<>>, "net/http.ResponseWriter"),
      Field(<<"r">>, "*net/http.Request"), Field(<<"req">>, "*net/http.Request"),
      Field(<<"r", "r2">>, "*net/http.Request"), Field(<<>>, "*net/http.Request"),
      Field(<<"x">>, "string") }

\* the parameter names, in order
RECURSIVE ParamNames(_)
ParamNames(params) ==
    IF params = <<>> THEN <<>> ELSE Head(params).names \o ParamNames(Tail(params))

\* the parameter lists the compiler accepts: all fields named or none, and
\* no name twice
ParamLists ==
    { ps \in UNION { [1..n -> ParamFields] : n \in 0..MaxFields } :
        /\ \A i, j \in 1..Len(ps) : (ps[i].names = <<>>) = (ps[j].names = <<>>)
        /\ \A i, j \in 1..Len(ParamNames(ps)) :
              ParamNames(ps)[i] = ParamNames(ps)[j] => i = j }

ProgramOfHandler(gp, ps, hb) ==
    [Program(gp, <<>>, hb, <<sDo>>, <<sDo>>)
        EXCEPT ![Key("main", "index")].params = ps]

InitHandlers ==
    /\ \E gp \in Packages :
       \E ps \in ParamLists, hb \in { <<sDo>>, <<sCall("f", "")>> },
          order \in Orders(gp) :
          /\ mgr = NewManager(ProgramOfHandler(gp, ps, hb))
          /\ orig = [decls |-> ProgramOfHandler(gp, ps, hb), order |-> order]
          /\ log = [key \in DOMAIN ProgramOfHandler(gp, ps, hb) |-> "none"]
    /\ pc = "walk"
    /\ visited = {}
    /\ run = 1
    /\ out1 = <<>>
    /\ cur = Cursor(<<>>, 0)
    /\ applied = <<>>
    /\ ret = FALSE

SpecHandlers == InitHandlers /\ [][Next]_vars

---------------------------------------------------------------------------
(* isNetHttpMethodCannotInstrument on a statement with any calls *)

MaxCallExprs == 3

\* http.Get(url), http.Post(url), http.Head(url), http.PostForm(url),
\* client.Get(url), client.Do(req), log.Println(...)
CallPool ==
    { HttpFunc(httpGet), HttpFunc(httpPost), HttpFunc(httpHead), HttpFunc(httpPostForm),
      Call("Selector", "client", "main", httpGet, netHttpPath,
           <<BasicLit("url")>>, 0, HttpResults, TRUE),
      DoCall("client", "main", "req"),
      OtherCall("Println", "log", <<>>) }

\* the calls of a statement in the order dst.Inspect visits them: a call is
\* an argument of the call before it, or of a call above that one, or of
\* none
CallTrees ==
    { cs \in UNION { [1..n -> CallPool \cup { [c EXCEPT !.under = u] :
                                               c \in CallPool, u \in 1..(n - 1) }] :
                     n \in 1..MaxCallExprs } :
        \A i \in 1..Len(cs) :
            /\ cs[i].under < i
            /\ i > 1 => cs[i].under \in {0, i - 1} \cup Ancestors(cs, i - 1) }

Roots(cs) == {i \in 1..Len(cs) : cs[i].under = 0}

\* an expression statement has one expression; an assignment and a return
\* statement have one or more
CallStatements ==
    { User(1, "ExprStmt", "", <<>>, 0, "", cs, 1, NoDecs) :
        cs \in {t \in CallTrees : Cardinality(Roots(t)) = 1} }
    \cup { User(1, node, "", <<>>, Cardinality(Roots(cs)), "call", cs, 1, NoDecs) :
             node \in {"AssignStmt", "ReturnStmt"}, cs \in CallTrees }

InitCalls ==
    /\ mgr = NewManager(<<>>)
    /\ pc = "node"
    /\ visited = {}
    /\ run = 1
    /\ out1 = <<>>
    /\ log = ""
    /\ \E stmt \in CallStatements :
          /\ cur = Cursor(<<stmt>>, 1)
          /\ orig = [list |-> <<stmt>>, txn |-> defaultTxnName]
    /\ applied = <<>>
    /\ ret = FALSE

\* log is the name returned, ret the boolean
ApplyIsNetHttpMethodCannotInstrument ==
    /\ pc = "node"
    /\ pc' = "found"
    /\ log' = isNetHttpMethodCannotInstrument(Node(cur)).name
    /\ ret' = isNetHttpMethodCannotInstrument(Node(cur)).ok
    /\ UNCHANGED <<mgr, visited, run, out1, cur, applied, orig>>

NextCalls == ApplyIsNetHttpMethodCannotInstrument

SpecCalls == InitCalls /\ [][NextCalls]_vars

---------------------------------------------------------------------------
(* The helpers that move decorations, each applied to one statement
   (SpecDecs) *)

\* the decorations of a statement: the space before and after it, and up to
\* MaxLines comment lines on each side; or none at all (nil)
SourceDecs ==
    { [Before |-> b, Start |-> Comments("lead", 1, n),
       End |-> Comments("trail", 1, t), After |-> a] :
        b \in {None, NewLine, EmptyLine}, a \in {None, NewLine, EmptyLine},
        n \in 0..MaxLines, t \in 0..MaxLines }
    \cup {NilDecs}

InitDecs ==
    /\ mgr = NewManager(<<>>)
    /\ pc = "decs"
    /\ visited = {}
    /\ run = 1
    /\ out1 = <<>>
    /\ log = <<>>
    /\ \E d \in SourceDecs :
          LET stmt == User(1, "ExprStmt", "", <<>>, 0, "",
                           <<DoCall("client", "main", "req")>>, 1, d)
          IN  /\ cur = Cursor(<<stmt>>, 1)
              /\ orig = [list |-> <<stmt>>, txn |-> defaultTxnName]
    /\ applied = <<>>
    /\ ret = FALSE

\* the helper returns r.stmt and leaves r.decs on the node
Moved(helper, r) ==
    /\ pc = "decs"
    /\ pc' = "moved"
    /\ cur' = Cursor(<<[Node(cur) EXCEPT !.decs = r.decs], r.stmt>>, 1)
    /\ applied' = <<helper>>
    /\ UNCHANGED <<mgr, visited, run, out1, log, ret, orig>>

ApplyStartExternalSegment ==
    Moved("startExternalSegment",
          startExternalSegment(NewIdent("req"), orig.txn, "externalSegment",
                               Node(cur).decs))

ApplyAddTxnToRequestContext ==
    Moved("addTxnToRequestContext",
          addTxnToRequestContext(NewIdent("req"), orig.txn, Node(cur).decs))

ApplyEndExternalSegment ==
    Moved("endExternalSegment",
          endExternalSegment("externalSegment", Node(cur).decs))

ApplyGenerateNoticeError ==
    Moved("generateNoticeError",
          generateNoticeError("err", orig.txn, Node(cur).decs))

NextDecs ==
    \/ ApplyStartExternalSegment
    \/ ApplyAddTxnToRequestContext
    \/ ApplyEndExternalSegment
    \/ ApplyGenerateNoticeError

SpecDecs == InitDecs /\ [][NextDecs]_vars

---------------------------------------------------------------------------
(* Programs whose main calls user functions in nested blocks (SpecBlocks) *)

\* for ... { body }
sFor(body) == [sIf(body) EXCEPT !.node = "ForStmt"]

\* calls of f and g in main: one in a block and one after it, one before a
\* block and one in it, in two blocks side by side, in a block and in a
\* block of that block
BlockBodies(gp) ==
    { <<sIf(<<sCall("f", "")>>), sCall("f", "")>>,
      <<sCall("f", ""), sIf(<<sCall("g", PathTo(gp))>>)>>,
      <<sIf(<<sCall("f", "")>>), sFor(<<sCall("g", PathTo(gp))>>)>>,
      <<sFor(<<sCall("f", ""), sIf(<<sCall("g", PathTo(gp))>>)>>)>>,
      <<sFor(<<sIf(<<sCall("f", "")>>), sCall("g", PathTo(gp))>>)>> }

InitBlocks ==
    /\ \E gp \in Packages :
       \E mb \in BlockBodies(gp), fb \in { <<>>, <<sDo>> }, gb \in { <<>>, <<sDo>> },
          order \in Orders(gp) :
          /\ mgr = NewManager(Program(gp, mb, <<>>, fb, gb))
          /\ orig = [decls |-> Program(gp, mb, <<>>, fb, gb), order |-> order]
          /\ log = [key \in DOMAIN Program(gp, mb, <<>>, fb, gb) |-> "none"]
    /\ pc = "walk"
    /\ visited = {}
    /\ run = 1
    /\ out1 = <<>>
    /\ cur = Cursor(<<>>, 0)
    /\ applied = <<>>
    /\ ret = FALSE

SpecBlocks == InitBlocks /\ [][Next]_vars

---------------------------------------------------------------------------
(* Properties of the transforms at one node (SpecList) *)

\* where the user statement id stands in the list
Pos(list, id) == CHOOSE i \in 1..Len(list) : list[i].id = id

\* the places of the comment line c in the decorations of the list
Occ(list, c) ==
    UNION {{<<i, k, side>> : k \in {n \in 1..Len(list[i].decs[side]) :
                                      list[i].decs[side][n] = c}} :
              i \in 1..Len(list), side \in {"Start", "End"}}

\* only generated statements stand between positions a and b (a <= b)
GeneratedBetween(list, a, b) == \A m \in a..b : list[m].id = 0

LeadingKept(list, s) ==
    \A k \in 1..Len(s.decs.Start) :
        LET c == s.decs.Start[k]
            p == Pos(list, s.id)
        IN  /\ Cardinality(Occ(list, c)) = 1
            /\ \E t \in Occ(list, c) :
                  /\ t[3] = "Start"
                  /\ t[1] <= p
                  /\ GeneratedBetween(list, t[1], p - 1)

TrailingKept(list, s) ==
    \A k \in 1..Len(s.decs.End) :
        LET c == s.decs.End[k]
            p == Pos(list, s.id)
        IN  /\ Cardinality(Occ(list, c)) = 1
            /\ \E t \in Occ(list, c) :
                  /\ t[3] = "End"
                  /\ t[1] >= p
                  /\ GeneratedBetween(list, p + 1, t[1])

\* C7 Comment preservation: whatever transforms were applied at the node,
\* every leading and trailing comment line of every original statement is
\* in the list exactly once, a leading one on the statement or on a
\* statement inserted before it, a trailing one on the statement or on a
\* statement inserted after it.
C7_CommentPreservation ==
    \A j \in 1..Len(orig.list) :
        /\ LeadingKept(cur.list, orig.list[j])
        /\ TrailingKept(cur.list, orig.list[j])

\* C7 witness: the leading comments of the statement have moved to the
\* statement inserted before it and the trailing ones to one inserted after
C7_Witness ==
    LET p == Pos(cur.list, 2)
    IN  /\ Len(orig.list[Pos(orig.list, 2)].decs.Start) = MaxLines
        /\ Len(orig.list[Pos(orig.list, 2)].decs.End) = MaxLines
        /\ cur.list[p].decs.Start = <<>>
        /\ cur.list[p].decs.End = <<>>
        /\ Len(applied) >= 2
        /\ C7_CommentPreservation

\* the statement calls Do on the default client of net/http
CallsDefaultClientDo(stmt) ==
    \E k \in 1..Len(stmt.calls) :
        /\ stmt.calls[k].name = httpDo
        /\ stmt.calls[k].path = netHttpPath
        /\ stmt.calls[k].x = httpDefaultClientVariable
        /\ stmt.calls[k].xPath = netHttpPath

RequestOf(stmt) ==
    stmt.calls[CHOOSE k \in 1..Len(stmt.calls) : stmt.calls[k].name = httpDo].args[1]

BindsResponse(stmt) ==
    /\ stmt.node = "AssignStmt"
    /\ \E k \in 1..Len(stmt.lhs) : stmt.lhs[k].type = ResponseType

ResponseName(stmt) ==
    stmt.lhs[CHOOSE k \in 1..Len(stmt.lhs) :
                /\ stmt.lhs[k].type = ResponseType
                /\ \A j \in 1..(k - 1) : stmt.lhs[j].type # ResponseType].name

\* externalSegment := newrelic.StartExternalSegment(txn, req)
IsStartExternalSegment(s, txn, req) ==
    /\ s.node = "AssignStmt"
    /\ s.tok = "DEFINE"
    /\ Len(s.lhs) = 1
    /\ s.lhs[1].name = "externalSegment"
    /\ Len(s.calls) = 1
    /\ s.calls[1].form = "Ident"
    /\ s.calls[1].name = "StartExternalSegment"
    /\ s.calls[1].path = newrelicAgentImport
    /\ s.calls[1].args = <<NewIdent(txn), req>>

\* externalSegment.Response = resp
IsCaptureResponse(s, resp) ==
    /\ s.node = "AssignStmt"
    /\ s.tok = "ASSIGN"
    /\ Len(s.lhs) = 1
    /\ s.lhs[1].name = "externalSegment.Response"
    /\ s.rhs = "expr"
    /\ s.x = resp

\* externalSegment.End()
IsEndExternalSegment(s) ==
    /\ s.node = "ExprStmt"
    /\ Len(s.calls) = 1
    /\ s.calls[1].form = "Selector"
    /\ s.calls[1].x = "externalSegment"
    /\ s.calls[1].name = "End"
    /\ s.calls[1].args = <<>>

\* the same statement, its decorations apart
SameStatement(s, t) == [s EXCEPT !.decs = t.decs] = t

CallsCannotInstrument(stmt) ==
    \E k \in 1..Len(stmt.calls) :
        /\ stmt.calls[k].form = "Ident"
        /\ stmt.calls[k].path = netHttpPath
        /\ stmt.calls[k].name \in {httpGet, httpPost, httpHead, httpPostForm}

WarnedName(stmt) ==
    stmt.calls[CHOOSE k \in 1..Len(stmt.calls) :
                  /\ stmt.calls[k].form = "Ident"
                  /\ stmt.calls[k].path = netHttpPath].name

\* the three warning lines are the first leading comments of s
HasWarning(s, name) ==
    /\ Len(s.decs.Start) >= 3
    /\ s.decs.Start[1] = "// the \"http." \o name
                         \o "()\" net/http method can not be instrumented and its outbound traffic can not be traced"
    /\ s.decs.Start[2] = "// please see these examples of code patterns for external http calls that can be instrumented:"
    /\ s.decs.Start[3] = "// https://docs.newrelic.com/docs/apm/agents/go-agent/configuration/distributed-tracing-go-agent/#make-http-requests"

\* C8 Non-instrumentable warnings: once CannotInstrumentHttpMethod has been
\* applied to a statement that contains a call of net/http Get, Post, Head
\* or PostForm, the three warning lines naming the method are the first of
\* its leading comments, one "//" line follows them exactly when the
\* statement had leading comments, and no statement and no import is added.
C8_NonInstrumentableWarnings ==
    LET before == orig.list[Pos(orig.list, 2)]
        after == cur.list[Pos(cur.list, 2)]
    IN  ( /\ applied = <<"CannotInstrumentHttpMethod">>
          /\ CallsCannotInstrument(before) )
        =>
        /\ HasWarning(after, WarnedName(before))
        /\ after.decs.Start =
              SubSeq(after.decs.Start, 1, 3)
              \o (IF before.decs.Start # <<>> THEN <<"//">> ELSE <<>>)
              \o before.decs.Start
        /\ Len(cur.list) = Len(orig.list)
        /\ mgr.imports = NewManager(<<>>).imports

\* the statement calls the net/http method Do on a receiver that is not
\* net/http's DefaultClient
CallsCustomClientDo(stmt) ==
    \E k \in 1..Len(stmt.calls) :
        /\ stmt.calls[k].typed
        /\ stmt.calls[k].name = httpDo
        /\ stmt.calls[k].path = netHttpPath
        /\ ~(stmt.calls[k].x = httpDefaultClientVariable
             /\ stmt.calls[k].xPath = netHttpPath)

\* req = newrelic.RequestWithTransactionContext(req, txn)
IsRequestWithTransactionContext(s, txn, req) ==
    /\ s.node = "AssignStmt"
    /\ s.tok = "ASSIGN"
    /\ Len(s.lhs) = 1
    /\ s.lhs[1].name = req.name
    /\ s.rhsN = 1
    /\ Len(s.calls) = 1
    /\ s.calls[1].form = "Ident"
    /\ s.calls[1].name = "RequestWithTransactionContext"
    /\ s.calls[1].path = newrelicAgentImport
    /\ s.calls[1].args = <<req, NewIdent(txn)>>

\* a statement of the external segment: its definition, the capture of
\* the response or its end
IsExternalSegmentStatement(s) ==
    \/ IsEndExternalSegment(s)
    \/ \E k \in 1..Len(s.lhs) :
          s.lhs[k].name \in {"externalSegment", "externalSegment.Response"}

\* what ExternalHttpCall leaves at a custom-client Do: one statement, the
\* request given the transaction, right before the statement, nothing
\* after it, no external segment, the result true
CustomClientDoStep ==
    LET stmt == Node(cur)
        i == cur.i
        L == cur.list
        R == cur'.list
    IN  /\ Len(R) = Len(L) + 1
        /\ SubSeq(R, 1, i - 1) = SubSeq(L, 1, i - 1)
        /\ SubSeq(R, i + 2, Len(R)) = SubSeq(L, i + 1, Len(L))
        /\ IsRequestWithTransactionContext(R[i], orig.txn, RequestOf(stmt))
        /\ SameStatement(R[i + 1], stmt)
        /\ cur'.i = i + 1
        /\ \A k \in 1..Len(R) :
              IsExternalSegmentStatement(R[k]) => R[k] \in {L[j] : j \in 1..Len(L)}
        /\ ret' = TRUE

IsClientDeclaration(stmt) ==
    /\ stmt.node = "AssignStmt"
    /\ stmt.tok = "DEFINE"
    /\ stmt.rhsN = 1
    /\ Len(stmt.lhs) = 1
    /\ stmt.rhs = "clientLit"

\* an assignment to a client that is not such a declaration: x = &http.Client{}
\* or x := y
IsOtherClientAssignment(stmt) ==
    /\ stmt.node = "AssignStmt"
    /\ Len(stmt.lhs) = 1
    /\ stmt.lhs[1].type = "*net/http.Client"
    /\ ~IsClientDeclaration(stmt)

\* x.Transport = newrelic.NewRoundTripper(x.Transport)
IsRoundTripper(s, x) ==
    /\ s.node = "AssignStmt"
    /\ s.tok = "ASSIGN"
    /\ Len(s.lhs) = 1
    /\ s.lhs[1].name = x \o ".Transport"
    /\ s.rhsN = 1
    /\ Len(s.calls) = 1
    /\ s.calls[1].form = "Ident"
    /\ s.calls[1].name = "NewRoundTripper"
    /\ s.calls[1].path = newrelicAgentImport
    /\ s.calls[1].args = << Expr("Sel", x, "Transport", "", <<>>) >>

\* C12 HTTP client round-tripper: a step of InstrumentHttpClient at a valid
\* cursor index on x := &http.Client{...} inserts exactly one statement,
\* x.Transport = newrelic.NewRoundTripper(x.Transport), right after it, the
\* inserted statement takes the trailing spacing (After) of the original,
\* which becomes None, and the agent import is recorded; on x = &http.Client{}
\* and on x := y the step changes neither the list nor the manager.
C12_ClientRoundTripper ==
    [][ applied' = Append(applied, "InstrumentHttpClient")
        =>
        LET stmt == Node(cur)
            i == cur.i
            L == cur.list
            R == cur'.list
        IN  /\ (IsClientDeclaration(stmt) /\ Index(cur) >= 0) =>
                  /\ Len(R) = Len(L) + 1
                  /\ SubSeq(R, 1, i - 1) = SubSeq(L, 1, i - 1)
                  /\ SubSeq(R, i + 2, Len(R)) = SubSeq(L, i + 1, Len(L))
                  /\ cur'.i = i
                  /\ R[i] = [stmt EXCEPT !.decs.After = None]
                  /\ IsRoundTripper(R[i + 1], stmt.lhs[1].name)
                  /\ R[i + 1].decs = [NoDecs EXCEPT !.After = stmt.decs.After]
                  /\ newrelicAgentImport \in mgr'.imports[mgr.currentPackage]
            /\ IsOtherClientAssignment(stmt) => (cur' = cur /\ mgr' = mgr)
      ]_vars

\* C12 witness: the round tripper follows client := &http.Client{} and has
\* taken its empty line
C12_Witness ==
    /\ applied = <<"InstrumentHttpClient">>
    /\ Len(cur.list) = Len(orig.list) + 1
    /\ IsClientDeclaration(Node(cur))
    /\ orig.list[Pos(orig.list, 2)].decs.After = EmptyLine
    /\ Node(cur).decs.After = None
    /\ IsRoundTripper(cur.list[cur.i + 1], "client")
    /\ cur.list[cur.i + 1].decs.After = EmptyLine

\* C12 witness: a plain assignment of a client was left as it was
C12_WitnessUnchanged ==
    /\ applied = <<"InstrumentHttpClient">>
    /\ IsOtherClientAssignment(Node(cur))
    /\ cur.list = orig.list

\* the call on the right-hand side is a call of the agent library
IsAgentCall(call) == call.path = newrelicAgentImport \/ call.x = "newrelic"

\* an assignment whose right-hand side is exactly one call of a callee
\* outside the agent library whose results contain error
ReturnsErrorToNotice(stmt) ==
    /\ stmt.node = "AssignStmt"
    /\ stmt.rhsN = 1
    /\ stmt.rhs = "call"
    /\ ~IsAgentCall(stmt.calls[stmt.top])
    /\ \E k \in 1..Len(stmt.calls[stmt.top].results) :
          stmt.calls[stmt.top].results[k] = ErrorType

\* an assignment with several right-hand sides, a right-hand side that is
\* no call, a call of the agent library or a callee without error result
NothingToNotice(stmt) ==
    /\ stmt.node = "AssignStmt"
    /\ \/ stmt.rhsN > 1
       \/ stmt.rhs # "call"
       \/ IsAgentCall(stmt.calls[stmt.top])
       \/ \A k \in 1..Len(stmt.calls[stmt.top].results) :
             stmt.calls[stmt.top].results[k] # ErrorType

\* the left-hand side at the position of the first error result
ErrorLhs(stmt) ==
    stmt.lhs[CHOOSE k \in 1..Len(stmt.calls[stmt.top].results) :
                /\ stmt.calls[stmt.top].results[k] = ErrorType
                /\ \A j \in 1..(k - 1) : stmt.calls[stmt.top].results[j] # ErrorType]

\* <txn>.NoticeError(<e>)
IsNoticeError(s, txn, e) ==
    /\ s.node = "ExprStmt"
    /\ Len(s.calls) = 1
    /\ s.calls[1].form = "Selector"
    /\ s.calls[1].x = txn
    /\ s.calls[1].name = "NoticeError"
    /\ s.calls[1].args = <<NewIdent(e)>>

\* the step inserted <txn>.NoticeError(<e>) right after the assignment and
\* returned true
NoticeErrorInserted ==
    LET stmt == Node(cur)
        i == cur.i
        L == cur.list
        R == cur'.list
    IN  /\ Len(R) = Len(L) + 1
        /\ SubSeq(R, 1, i - 1) = SubSeq(L, 1, i - 1)
        /\ SubSeq(R, i + 2, Len(R)) = SubSeq(L, i + 1, Len(L))
        /\ SameStatement(R[i], stmt)
        /\ IsNoticeError(R[i + 1], orig.txn, ErrorLhs(stmt).name)
        /\ cur'.i = i
        /\ ret' = TRUE

\* C13 NoticeError: a step of NoticeError on an assignment whose right-hand
\* side is exactly one call of a callee outside the agent library whose
\* results contain error inserts <txn>.NoticeError(<e>) right after the
\* assignment, <e> being the left-hand side at the position of the first
\* error result, and returns true; on an assignment with several right-hand
\* sides, a right-hand side that is no call, a call of the agent library or
\* a callee without error result it inserts nothing and returns false.
C13_NoticeError ==
    [][ applied' = Append(applied, "NoticeError")
        =>
        /\ ReturnsErrorToNotice(Node(cur)) => NoticeErrorInserted
        /\ NothingToNotice(Node(cur)) => (cur' = cur /\ ret' = FALSE)
      ]_vars

\* what holds of NoticeError: the same for an assignment in a statement
\* list whose left-hand side at the error position is an identifier; any
\* other assignment is left as it is and the result is false
C13_NoticeErrorOfIdentifier ==
    [][ ( /\ applied' = Append(applied, "NoticeError")
          /\ Node(cur).node = "AssignStmt" )
        =>
        IF /\ ReturnsErrorToNotice(Node(cur))
           /\ Index(cur) >= 0
           /\ ErrorLhs(Node(cur)).isIdent
        THEN NoticeErrorInserted
        ELSE cur' = cur /\ ret' = FALSE
      ]_vars

\* the error of the assignment went to a field and the step noticed nothing
C13_FieldErrorUnnoticed ==
    /\ applied = <<"NoticeError">>
    /\ Index(cur) >= 0
    /\ ReturnsErrorToNotice(Node(cur))
    /\ ~ErrorLhs(Node(cur)).isIdent
    /\ cur.list = orig.list
    /\ ~ret

\* a call of net/http HandleFunc or Handle
IsRegistration(call) ==
    /\ call.typed
    /\ call.path = netHttpPath
    /\ call.name \in {httpHandleFunc, httpMuxHandle}

\* the one argument newrelic.WrapHandleFunc(A, pattern, handler)
Wrapped(A, args) ==
    << Expr("Call", "", "WrapHandleFunc", newrelicAgentImport,
            <<A, args[1], args[2]>>) >>

AgentVariable == NewIdent(mgr.agentVariableName)

TxnApplication == Expr("Call", orig.txn, "Application", "", <<>>)

\* the calls of the statement the transforms are applied to, before any
OriginalCalls == orig.list[Pos(orig.list, 2)].calls

\* the step left everything but the arguments of the calls of the node
OnlyArgumentsChange ==
    /\ cur'.i = cur.i
    /\ Len(cur'.list) = Len(cur.list)
    /\ \A j \in 1..Len(cur.list) : j # cur.i => cur'.list[j] = cur.list[j]
    /\ [Node(cur') EXCEPT !.calls = Node(cur).calls] = Node(cur)
    /\ Len(Node(cur').calls) = Len(Node(cur).calls)

\* the step of a rewrite gave every registration of two arguments the one
\* argument newrelic.WrapHandleFunc(A, pattern, handler) and left every
\* other call as it was
RegistrationsWrapped(A, reached) ==
    \A k \in 1..Len(Node(cur).calls) :
        LET call == Node(cur).calls[k]
        IN  IF IsRegistration(call) /\ Len(call.args) = 2 /\ reached
            THEN Node(cur').calls[k] = [call EXCEPT !.args = Wrapped(A, call.args)]
            ELSE Node(cur').calls[k] = call

\* C14 Handler-registration wrapping: a step of WrapHandleFunc on the call
\* of an expression statement, and a step of WrapNestedHandleFunction on a
\* statement, give a call of net/http HandleFunc or Handle with exactly two
\* arguments the single argument newrelic.WrapHandleFunc(A, pattern,
\* handler), pattern and handler in their order, A being the agent variable
\* of the manager for the first and <txn>.Application() for the second, and
\* leave a call with another number of arguments unchanged; so whatever
\* rewrites are applied one after the other, the arguments of a
\* registration are the original ones or the original ones wrapped once.
C14_RegistrationWrapping ==
    /\ [][ /\ applied' = Append(applied, "WrapHandleFunc") =>
                /\ OnlyArgumentsChange
                /\ RegistrationsWrapped(AgentVariable, Node(cur).node = "ExprStmt")
           /\ applied' = Append(applied, "WrapNestedHandleFunction") =>
                /\ OnlyArgumentsChange
                /\ RegistrationsWrapped(TxnApplication, TRUE)
         ]_vars
    /\ [](\A k \in 1..Len(OriginalCalls) :
             LET args == OriginalCalls[k].args
                 now == Node(cur).calls[k].args
             IN  IsRegistration(OriginalCalls[k]) =>
                    \/ now = args
                    \/ /\ Len(args) = 2
                       /\ now \in {Wrapped(AgentVariable, args),
                                   Wrapped(TxnApplication, args)})

\* C14 witness: the registration was wrapped by WrapHandleFunc with the
\* agent variable, and WrapNestedHandleFunction, applied next, left it so
C14_Witness ==
    /\ applied = <<"WrapHandleFunc", "WrapNestedHandleFunction">>
    /\ IsRegistration(OriginalCalls[1])
    /\ Len(OriginalCalls[1].args) = 2
    /\ Node(cur).calls[1].args = Wrapped(AgentVariable, OriginalCalls[1].args)
    /\ ~ret

\* C14 witness: the registration was wrapped by WrapNestedHandleFunction
\* with <txn>.Application(), and WrapHandleFunc, applied next, left it so
C14_WitnessNested ==
    /\ applied = <<"WrapNestedHandleFunction", "WrapHandleFunc">>
    /\ IsRegistration(OriginalCalls[1])
    /\ Node(cur).calls[1].args = Wrapped(TxnApplication, OriginalCalls[1].args)

---------------------------------------------------------------------------
(* Properties of the whole transformation (Spec) *)

\* the statements of a list, those of the nested bodies included
RECURSIVE StmtsOf(_)
StmtsOf(list) ==
    UNION {{list[i]} \cup StmtsOf(list[i].body) : i \in 1..Len(list)}

\* the function a call written in package pkg names
Callee(pkg, call) == Key(IF call.path = "" THEN pkg ELSE call.path, call.name)

\* the calls of the user function F in the declarations decls
CallsIn(decls, key, F) ==
    UNION {{s.calls[k] : k \in {n \in 1..Len(s.calls) :
                                  /\ s.calls[n].form = "Ident"
                                  /\ Callee(decls[key].pkg, s.calls[n]) = F}} :
              s \in StmtsOf(decls[key].body)}

CallSites(decls, F) == UNION {CallsIn(decls, key, F) : key \in DOMAIN decls}

\* the declaration of F has one parameter more than in the input, the last
\* one, of transaction type
GainedTxnParameter(F) ==
    LET params == mgr.decls[F].params
    IN  /\ Len(params) = Len(orig.decls[F].params) + 1
        /\ params[Len(params)].type = TxnType

IsTxnIdent(a) == a.e = "Ident" /\ a.name \in {defaultTxnName, handlerTxnName}

IsNewGoroutine(a, txn) ==
    a.e = "Call" /\ a.name = "NewGoroutine" /\ a.x = txn /\ a.args = <<>>

IsTxnArgument(a) ==
    IsTxnIdent(a) \/ \E t \in {defaultTxnName, handlerTxnName} : IsNewGoroutine(a, t)

PassesTxnLast(call, F) ==
    /\ Len(call.args) = Len(mgr.decls[F].params)
    /\ IsTxnArgument(call.args[Len(call.args)])
    /\ \A k \in 1..(Len(call.args) - 1) : ~IsTxnArgument(call.args[k])

FirstRunDone == pc = "done" /\ run = 1

\* C1 Parameter-arg symmetry: after the whole transformation, every call
\* of a user function whose declaration gained a transaction parameter has
\* exactly one extra argument, of transaction type, as its last argument.
C1_ParameterArgSymmetry ==
    FirstRunDone =>
        \A F \in Keys :
            GainedTxnParameter(F) =>
                \A call \in CallSites(mgr.decls, F) : PassesTxnLast(call, F)

\* nrTxn := newrelic.FromContext(r.Context()), one empty line after it
IsTxnFromContext(s) ==
    /\ s.node = "AssignStmt"
    /\ s.tok = "DEFINE"
    /\ Len(s.lhs) = 1
    /\ s.lhs[1].name = handlerTxnName
    /\ Len(s.calls) = 1
    /\ s.calls[1].form = "Ident"
    /\ s.calls[1].name = "FromContext"
    /\ s.calls[1].path = newrelicAgentImport
    /\ s.calls[1].args = << Expr("Call", "r", "Context", "", <<>>) >>
    /\ s.decs.After = EmptyLine

\* C2 Handler closure: at the declaration of a handler, the FromContext
\* binding is prepended to the traced body if and only if TraceFunction
\* reports a modification; a handler in which no transform fired is left
\* as it was, flags included.
C2_HandlerClosure ==
    [][ \A key \in Keys :
          ( /\ <<"decl", key>> \in visited' \ visited
            /\ isHttpHandler(mgr.decls[key])
            /\ mgr.decls[key].name # "main"
            /\ pc' = "walk" )
          =>
          LET t == TraceFunction(SetPackage(mgr, mgr.decls[key].pkg), key,
                                 handlerTxnName, MaxDepth)
              body == mgr'.decls[key].body
          IN  IF t.modified
              THEN /\ Len(body) = Len(t.m.decls[key].body) + 1
                   /\ IsTxnFromContext(body[1])
                   /\ Tail(body) = t.m.decls[key].body
                   /\ mgr'.decls[key].params = mgr.decls[key].params
              ELSE /\ mgr'.decls[key] = mgr.decls[key]
                   /\ mgr'.traced[key] = mgr.traced[key]
      ]_vars

\* C2 witness: a handler whose body was modified begins with the binding,
\* while another run left a handler untouched
C2_Witness ==
    /\ FirstRunDone
    /\ \E key \in Keys :
          /\ isHttpHandler(mgr.decls[key])
          /\ log[key] = "modified"
          /\ Len(mgr.decls[key].body) >= 3
          /\ IsTxnFromContext(mgr.decls[key].body[1])

\* the transaction identifier of the body of a traced declaration
BodyTxn(key) ==
    IF isHttpHandler(mgr.decls[key]) THEN handlerTxnName
    ELSE mgr.decls[key].params[Len(mgr.decls[key].params)].names[1]

\* the declarations whose body the tracer has rewritten
TracedBodies ==
    {key \in Keys : \/ log[key] = "modified"
                    \/ GainedTxnParameter(key)}

\* go f(...) with f a user function that takes a transaction
GoOfTracedFunction(key, s) ==
    /\ s.node = "GoStmt"
    /\ ~IsGoLiteral(s)
    /\ s.calls[s.top].form = "Ident"
    /\ Callee(mgr.decls[key].pkg, s.calls[s.top]) \in Keys
    /\ GainedTxnParameter(Callee(mgr.decls[key].pkg, s.calls[s.top]))

\* C3 Goroutine isolation: in a traced body, a go statement whose target
\* is a user function that takes a transaction passes, in the transaction
\* position, the call NewGoroutine() on the transaction identifier of the
\* body, never the identifier itself.
C3_GoroutineIsolation ==
    FirstRunDone =>
        \A key \in TracedBodies :
            \A s \in StmtsOf(mgr.decls[key].body) :
                GoOfTracedFunction(key, s) =>
                    LET args == s.calls[s.top].args
                    IN  /\ Len(args) = Len(mgr.decls[Callee(mgr.decls[key].pkg,
                                                           s.calls[s.top])].params)
                        /\ IsNewGoroutine(args[Len(args)], BodyTxn(key))
                        /\ \A k \in 1..(Len(args) - 1) : ~IsTxnArgument(args[k])

\* C3 witness: a traced function, not a handler, launches a traced function
C3_Witness ==
    /\ FirstRunDone
    /\ \E key \in TracedBodies :
          /\ ~isHttpHandler(mgr.decls[key])
          /\ \E s \in StmtsOf(mgr.decls[key].body) :
                /\ GoOfTracedFunction(key, s)
                /\ IsNewGoroutine(s.calls[s.top].args[Len(s.calls[s.top].args)],
                                  BodyTxn(key))

\* defer <txn>.StartSegment("<name>").End()
IsDeferSegment(s, name, txn) ==
    /\ s.node = "DeferStmt"
    /\ Len(s.calls) = 2
    /\ s.top = 1
    /\ s.calls[1].form = "Selector"
    /\ s.calls[1].name = "End"
    /\ s.calls[1].args = <<>>
    /\ s.calls[2].under = 1
    /\ s.calls[2].x = txn
    /\ s.calls[2].name = "StartSegment"
    /\ s.calls[2].args = << BasicLit("\"" \o name \o "\"") >>

\* a call statement of a user function that takes a transaction
CallOfTracedFunction(key, s) ==
    /\ s.node = "ExprStmt"
    /\ s.calls[s.top].form = "Ident"
    /\ Callee(mgr.decls[key].pkg, s.calls[s.top]) \in Keys
    /\ GainedTxnParameter(Callee(mgr.decls[key].pkg, s.calls[s.top]))

\* C4 Goroutine of an anonymous literal: in a traced body, a literal
\* launched with go has one transaction parameter, the go statement passes
\* NewGoroutine() on the body's transaction, the literal begins with the
\* deferred "async literal" segment, and the calls of traced user
\* functions in the literal receive the literal's own parameter.
C4_GoroutineLiteral ==
    FirstRunDone =>
        \A key \in Keys :
            \A s \in StmtsOf(mgr.decls[key].body) :
                (IsGoLiteral(s) /\ (mgr.entries[key] > 0 \/ key \in TracedBodies)) =>
                    LET t == BodyTxn(key)
                    IN  /\ s.params = << [names |-> <<t>>, type |-> TxnType] >>
                        /\ Len(s.calls[s.top].args) = 1
                        /\ IsNewGoroutine(s.calls[s.top].args[1], t)
                        /\ Len(s.body) >= 1
                        /\ IsDeferSegment(s.body[1], "async literal", t)
                        /\ \A u \in StmtsOf(s.body) :
                              CallOfTracedFunction(key, u) =>
                                  LET args == u.calls[u.top].args
                                  IN  /\ Len(args) = 2
                                      /\ args[2] = NewIdent(t)

\* C4 witness: a literal launched by a handler calls a traced function
C4_Witness ==
    /\ FirstRunDone
    /\ \E key \in TracedBodies :
          \E s \in StmtsOf(mgr.decls[key].body) :
              /\ IsGoLiteral(s)
              /\ IsDeferSegment(s.body[1], "async literal", BodyTxn(key))
              /\ \E u \in StmtsOf(s.body) :
                    /\ CallOfTracedFunction(key, u)
                    /\ u.calls[u.top].args[2] = NewIdent(BodyTxn(key))

\* agent, err := newrelic.NewApplication(...)
IsAgentInit(s) ==
    /\ s.node = "AssignStmt"
    /\ s.tok = "DEFINE"
    /\ Len(s.lhs) = 2
    /\ s.lhs[1].name = defaultAgentVariableName
    /\ s.lhs[2].name = "err"
    /\ Len(s.calls) = 1
    /\ s.calls[1].form = "Ident"
    /\ s.calls[1].name = "NewApplication"
    /\ s.calls[1].path = newrelicAgentImport

\* if err != nil { panic(err) }
IsPanicOnError(s) ==
    /\ s.node = "IfStmt"
    /\ Len(s.body) = 1
    /\ s.body[1].node = "ExprStmt"
    /\ s.body[1].calls[1].name = "panic"
    /\ s.body[1].calls[1].args = <<NewIdent("err")>>

\* agent.Shutdown(5 * time.Second)
IsShutdown(s) ==
    /\ s.node = "ExprStmt"
    /\ Len(s.calls) = 1
    /\ s.calls[1].form = "Selector"
    /\ s.calls[1].x = defaultAgentVariableName
    /\ s.calls[1].name = "Shutdown"
    /\ s.calls[1].args = << Expr("Bin", "5", "*", "time", <<NewIdent("Second")>>) >>

MainKey == Key("main", "main")

\* C5 Main bookending: once InstrumentMain has run on main, the body
\* begins with the agent initialization followed by the panic-on-error
\* block and ends with agent.Shutdown(5 * time.Second), whatever the
\* original body was.
C5_MainBookending ==
    (<<"decl", MainKey>> \in visited /\ pc # "crashed") =>
        LET body == mgr.decls[MainKey].body
        IN  /\ Len(body) >= 3
            /\ IsAgentInit(body[1])
            /\ IsPanicOnError(body[2])
            /\ IsShutdown(body[Len(body)])

\* C5 witness: main was empty; and a main whose calls were wrapped in
\* transactions
C5_Witness ==
    /\ FirstRunDone
    /\ \E s \in StmtsOf(mgr.decls[MainKey].body) : s.what = "endTransaction"
    /\ IsShutdown(mgr.decls[MainKey].body[Len(mgr.decls[MainKey].body)])
    /\ IsAgentInit(mgr.decls[MainKey].body[1])

C5_WitnessEmpty ==
    /\ FirstRunDone
    /\ orig.decls[MainKey].body = <<>>
    /\ Len(mgr.decls[MainKey].body) = 3

\* C6 Idempotence: the second run, on the output of the first, emits the
\* source it was given.
C6_Idempotence ==
    (pc = "done" /\ run = 2) => Text(mgr.decls) = out1

\* C9 Termination on cyclic call graphs: the tracer never exhausts the
\* stack and TraceFunction is entered at most twice for a function.
C9_Termination ==
    /\ pc # "crashed"
    /\ \A key \in Keys : mgr.entries[key] <= 2

\* the statements of a list in source order, each followed by those of its
\* nested body
RECURSIVE InOrder(_)
InOrder(list) ==
    IF list = <<>> THEN <<>>
    ELSE <<Head(list)>> \o InOrder(Head(list).body) \o InOrder(Tail(list))

\* <v> := <agent>.StartTransaction("<name>") or <v> = <agent>.StartTransaction("<name>")
IsStartTransaction(s) ==
    /\ s.node = "AssignStmt"
    /\ Len(s.calls) = 1
    /\ s.calls[1].form = "Selector"
    /\ s.calls[1].x = defaultAgentVariableName
    /\ s.calls[1].name = "StartTransaction"

\* the StartTransaction statements of main, in source order
StartsOfMain == SelectSeq(InOrder(mgr.decls[MainKey].body), IsStartTransaction)

\* C15 Transaction binding in main: in the main the first run produces, the
\* first StartTransaction statement in source order defines txn (:=), every
\* later one assigns to txn (=), and so main holds exactly one define
\* however many call sites were given a transaction.
C15_TransactionBinding ==
    (run = 1 /\ <<"decl", MainKey>> \in visited /\ pc # "crashed") =>
        \A k \in 1..Len(StartsOfMain) :
            /\ Len(StartsOfMain[k].lhs) = 1
            /\ StartsOfMain[k].lhs[1].name = defaultTxnName
            /\ StartsOfMain[k].tok = IF k = 1 THEN "DEFINE" ELSE "ASSIGN"

\* C15 witness: three call sites of main were given a transaction
C15_Witness ==
    /\ FirstRunDone
    /\ Len(StartsOfMain) = 3
    /\ StartsOfMain[1].tok = "DEFINE"
    /\ StartsOfMain[3].tok = "ASSIGN"

\* the statement lists of a body: the body and the nested bodies
RECURSIVE ListsOf(_)
ListsOf(list) ==
    {list} \cup UNION {ListsOf(list[i].body) : i \in 1..Len(list)}

\* an expression statement of main that is a call of a user function
IsUserCallOfMain(s) ==
    /\ s.node = "ExprStmt"
    /\ s.what = "user"
    /\ s.top # 0
    /\ s.calls[s.top].form = "Ident"
    /\ Callee("main", s.calls[s.top]) \in Keys

\* <txn>.End()
IsEndTransaction(s) ==
    /\ s.node = "ExprStmt"
    /\ Len(s.calls) = 1
    /\ s.calls[1].form = "Selector"
    /\ s.calls[1].x = defaultTxnName
    /\ s.calls[1].name = "End"
    /\ s.calls[1].args = <<>>

\* the three edits at position i of the list L: the transaction started
\* under the name of the callee right before, ended right after, and txn
\* the last argument of the call
WrappedInTransaction(L, i) ==
    LET call == L[i].calls[L[i].top]
    IN  /\ i > 1
        /\ IsStartTransaction(L[i - 1])
        /\ L[i - 1].lhs[1].name = defaultTxnName
        /\ L[i - 1].tok \in {"DEFINE", "ASSIGN"}
        /\ L[i - 1].calls[1].args = << BasicLit("\"" \o call.name \o "\"") >>
        /\ i < Len(L)
        /\ IsEndTransaction(L[i + 1])
        /\ Len(call.args) >= 2
        /\ call.args[Len(call.args)] = NewIdent(defaultTxnName)
        /\ \A k \in 1..(Len(call.args) - 1) : ~IsTxnArgument(call.args[k])

\* none of the three edits at position i of the list L
NotWrappedInTransaction(L, i) ==
    LET call == L[i].calls[L[i].top]
    IN  /\ i > 1 => ~IsStartTransaction(L[i - 1])
        /\ i < Len(L) => ~IsEndTransaction(L[i + 1])
        /\ \A k \in 1..Len(call.args) : ~IsTxnArgument(call.args[k])

MainWasInstrumented == run = 1 /\ <<"decl", MainKey>> \in visited /\ pc # "crashed"

\* C16 Call-site wrapping in main: in the main the first run produces,
\* every expression statement that calls a user function whose declaration
\* takes a transaction stands between txn :=|= agent.StartTransaction(
\* "<callee>") and txn.End() and passes txn as its last argument; a call of
\* a user function that was left without transaction parameter has none of
\* the three edits.
C16_CallSiteWrapping ==
    MainWasInstrumented =>
        \A L \in ListsOf(mgr.decls[MainKey].body) :
            \A i \in 1..Len(L) :
                IsUserCallOfMain(L[i]) =>
                    IF GainedTxnParameter(Callee("main", L[i].calls[L[i].top]))
                    THEN WrappedInTransaction(L, i)
                    ELSE NotWrappedInTransaction(L, i)

\* what holds of the call sites of main: the same for the call statements
\* that are elements of a statement list; the call that is the statement
\* of a label has none of the three edits
C16_CallSiteWrappingInList ==
    MainWasInstrumented =>
        \A L \in ListsOf(mgr.decls[MainKey].body) :
            \A i \in 1..Len(L) :
                IsUserCallOfMain(L[i]) =>
                    IF /\ GainedTxnParameter(Callee("main", L[i].calls[L[i].top]))
                       /\ L[i].inList
                    THEN WrappedInTransaction(L, i)
                    ELSE NotWrappedInTransaction(L, i)

\* three call sites of main are wrapped
C16_WrappedThrice ==
    /\ FirstRunDone
    /\ Cardinality({i \in 1..Len(mgr.decls[MainKey].body) :
                       /\ IsUserCallOfMain(mgr.decls[MainKey].body[i])
                       /\ WrappedInTransaction(mgr.decls[MainKey].body, i)}) = 3

\* a declaration named main that is not the function main of package main
IsOtherMain(key) ==
    /\ mgr.decls[key].name = "main"
    /\ mgr.decls[key].pkg # "main" \/ mgr.decls[key].recv # ""

\* the statements InstrumentMain adds to a body
IsBootstrap(s) == IsAgentInit(s) \/ IsPanicOnError(s) \/ IsShutdown(s)

\* C17 InstrumentMain fires only on the function main of package main: a
\* function named main of another package and a method named main receive
\* neither the agent initialization nor the shutdown call.
C17_OnlyMainOfPackageMain ==
    run = 1 =>
        \A key \in Keys :
            IsOtherMain(key) =>
                \A s \in StmtsOf(mgr.decls[key].body) : ~IsBootstrap(s)

\* what holds: a declaration that is not named main receives none of them
C17_OnlyDeclarationsNamedMain ==
    run = 1 =>
        \A key \in Keys :
            mgr.decls[key].name # "main" =>
                \A s \in StmtsOf(mgr.decls[key].body) : ~IsBootstrap(s)

\* the function run of package lib was visited and has kept its body
C17_RunVisited ==
    /\ FirstRunDone
    /\ \E key \in Keys :
          /\ mgr.decls[key].name = "run"
          /\ mgr.decls[key].body = orig.decls[key].body
          /\ orig.decls[key].body # <<>>

\* the call agent.Shutdown(5 * time.Second), as the call of any statement
IsShutdownCall(s) ==
    /\ Len(s.calls) = 1
    /\ s.calls[1].form = "Selector"
    /\ s.calls[1].x = defaultAgentVariableName
    /\ s.calls[1].name = "Shutdown"
    /\ s.calls[1].args = << Expr("Bin", "5", "*", "time", <<NewIdent("Second")>>) >>

\* C18 as stated, deferred shutdown: the shutdown InstrumentMain appends
\* to main is the statement defer agent.Shutdown(5 * time.Second).
C18_DeferredShutdown ==
    (<<"decl", MainKey>> \in visited /\ pc # "crashed") =>
        /\ IsShutdownCall(mgr.decls[MainKey].body[Len(mgr.decls[MainKey].body)])
        /\ mgr.decls[MainKey].body[Len(mgr.decls[MainKey].body)].node = "DeferStmt"

\* C18 Shutdown statement: the shutdown InstrumentMain appends to main is
\* the last statement of main and is the plain call statement
\* agent.Shutdown(5 * time.Second); no statement of main defers it.
C18_ShutdownIsCallStatement ==
    (<<"decl", MainKey>> \in visited /\ pc # "crashed") =>
        /\ IsShutdownCall(mgr.decls[MainKey].body[Len(mgr.decls[MainKey].body)])
        /\ mgr.decls[MainKey].body[Len(mgr.decls[MainKey].body)].node = "ExprStmt"
        /\ \A s \in StmtsOf(mgr.decls[MainKey].body) :
              s.node = "DeferStmt" => ~IsShutdownCall(s)

\* C18 witness: main had statements of its own, and the shutdown follows
\* the end of the last transaction
C18_Witness ==
    /\ FirstRunDone
    /\ orig.decls[MainKey].body # <<>>
    /\ Len(mgr.decls[MainKey].body) >= 4
    /\ mgr.decls[MainKey].body[Len(mgr.decls[MainKey].body)].node = "ExprStmt"
    /\ IsShutdownCall(mgr.decls[MainKey].body[Len(mgr.decls[MainKey].body)])
    /\ mgr.decls[MainKey].body[Len(mgr.decls[MainKey].body) - 1].what = "endTransaction"

\* a user function the tracer has rewritten: it takes a transaction, and
\* is neither main nor a handler
IsRewrittenFunction(key) ==
    /\ key # MainKey
    /\ ~isHttpHandler(mgr.decls[key])
    /\ GainedTxnParameter(key)

\* a statement, go statement, of some body calls the function
IsCalledBy(key, node) ==
    \E k \in Keys : \E s \in StmtsOf(mgr.decls[k].body) :
        /\ s.node = node
        /\ ~IsGoLiteral(s)
        /\ s.top # 0
        /\ s.calls[s.top].form = "Ident"
        /\ Callee(mgr.decls[k].pkg, s.calls[s.top]) = key

\* the segment timer of the function, under the name it has when called
\* or when launched with go
IsSegmentTimer(s, key) ==
    \/ /\ IsDeferSegment(s, mgr.decls[key].name, BodyTxn(key))
       /\ \E node \in {"ExprStmt", "AssignStmt"} : IsCalledBy(key, node)
    \/ /\ IsDeferSegment(s, "async " \o mgr.decls[key].name, BodyTxn(key))
       /\ IsCalledBy(key, "GoStmt")

SegmentTimers(key) ==
    LET IsTimer(s) == IsSegmentTimer(s, key)
    IN  SelectSeq(InOrder(mgr.decls[key].body), IsTimer)

\* the first statement of the body is the one segment timer of the function
HasSegmentTimer(key) ==
    /\ mgr.decls[key].body # <<>>
    /\ IsSegmentTimer(mgr.decls[key].body[1], key)
    /\ Len(SegmentTimers(key)) = 1

\* no statement of the body is a segment timer, the timers of the literals
\* launched with go apart
HasNoSegmentTimer(key) ==
    \A s \in StmtsOf(mgr.decls[key].body) :
        (s.node = "DeferStmt" /\ Len(s.calls) = 2 /\ s.calls[2].name = "StartSegment")
            => s.calls[2].args = << BasicLit("\"async literal\"") >>

\* a call statement of main calls the function
IsCalledByMain(key) ==
    \E s \in StmtsOf(mgr.decls[MainKey].body) :
        IsUserCallOfMain(s) /\ Callee("main", s.calls[s.top]) = key

C19_WitnessCall ==
    /\ FirstRunDone
    /\ \E key \in Keys :
          /\ IsRewrittenFunction(key)
          /\ HasSegmentTimer(key)
          /\ IsDeferSegment(mgr.decls[key].body[1], mgr.decls[key].name, BodyTxn(key))
          /\ ~IsCalledBy(key, "GoStmt")

\* the transaction parameters of a declaration
TxnParameters(key) ==
    LET IsTxn(p) == p.type = TxnType
    IN  SelectSeq(mgr.decls[key].params, IsTxn)

\* a flagged declaration has one transaction parameter, its last, of one
\* name, and an unflagged one has none
OneTxnParameter ==
    pc # "crashed" =>
        \A key \in Keys :
            /\ Len(TxnParameters(key)) = IF mgr.traced[key] THEN 1 ELSE 0
            /\ mgr.traced[key] =>
                  /\ mgr.decls[key].params[Len(mgr.decls[key].params)].type = TxnType
                  /\ Len(mgr.decls[key].params[Len(mgr.decls[key].params)].names) = 1

IndexGuarded == {"NoticeError", "ExternalHttpCall", "InstrumentHttpClient"}

\* a step of one of the three transforms at a node that is not an element
\* of a statement list
InvalidIndexStep ==
    /\ pc = "list"
    /\ Index(cur) < 0
    /\ Len(applied') = Len(applied) + 1
    /\ applied'[Len(applied')] \in IndexGuarded

\* the labelled call statements of main
LabelledCallsOfMain ==
    UNION { { <<L, i>> : i \in { k \in 1..Len(L) :
                                    IsUserCallOfMain(L[k]) /\ ~L[k].inList } } :
            L \in ListsOf(mgr.decls[MainKey].body) }

\* C21 Invalid cursor index: at a node that is not an element of a
\* statement list, NoticeError, ExternalHttpCall and InstrumentHttpClient
\* leave the list, the statement, its decorations and the imports as they
\* were and report false; InstrumentMain puts no StartTransaction before
\* and no End after such a call of main and appends no transaction
\* argument to it, and the walk of main completes.
C21_InvalidIndex ==
    /\ [][InvalidIndexStep => cur' = cur /\ mgr' = mgr /\ ret' = FALSE]_vars
    /\ [](MainWasInstrumented =>
            \A p \in LabelledCallsOfMain : NotWrappedInTransaction(p[1], p[2]))

\* C21 witness: the three transforms were applied to an assignment of
\* http.DefaultClient.Do with an error result that is no element of a
\* list; and a main whose labelled call of f was walked, f taking a
\* transaction
C21_Witness ==
    /\ pc = "list"
    /\ Index(cur) < 0
    /\ IndexGuarded \subseteq {applied[k] : k \in 1..Len(applied)}
    /\ Node(cur).node = "AssignStmt"
    /\ findErrorVariable(Node(cur)) # ""
    /\ cur.list = orig.list

C21_WitnessMain ==
    /\ FirstRunDone
    /\ LabelledCallsOfMain # {}
    /\ GainedTxnParameter(Key("main", "f"))

\* the statement the transforms were given, as it was
OriginalStatement == orig.list[Pos(orig.list, 2)]

\* t was applied, and u after it
AppliedBefore(t, u) ==
    \E j, k \in 1..Len(applied) : j < k /\ applied[j] = t /\ applied[k] = u

\* the trailing decorations a statement is left with when they are taken
\* from a node with decorations decs
TrailingOf(s, decs) ==
    IF IsNilDecs(decs) THEN s.decs = NoDecs
    ELSE s.decs = [NoDecs EXCEPT !.After = decs.After, !.End = decs.End]

\* an assignment of http.DefaultClient.Do(req) that binds the error to a
\* variable, at a valid index
MatchesR2AndR1 ==
    /\ pc = "list"
    /\ OriginalStatement.inList
    /\ CallsDefaultClientDo(OriginalStatement)
    /\ ReturnsErrorToNotice(OriginalStatement)
    /\ ErrorLhs(OriginalStatement).isIdent
    /\ ErrorLhs(OriginalStatement).name # "_"

\* C22 Transform order on one statement: after ExternalHttpCall and then
\* NoticeError at the same cursor on an assignment of
\* http.DefaultClient.Do(req) that binds the error, the list holds, adjacent
\* and in this order, StartExternalSegment, the assignment, NoticeError, the
\* Response assignment when a response is bound, and externalSegment.End();
\* the trailing decorations of the assignment are on End(), and NoticeError
\* and the assignment have none.
C22_TransformOrder ==
    (MatchesR2AndR1 /\ AppliedBefore("ExternalHttpCall", "NoticeError")) =>
        LET i == cur.i
            R == cur.list
            n == IF BindsResponse(OriginalStatement) THEN 3 ELSE 2
        IN  /\ Len(R) = Len(orig.list) + n + 1
            /\ i = Pos(orig.list, 2) + 1
            /\ IsStartExternalSegment(R[i - 1], orig.txn, RequestOf(OriginalStatement))
            /\ SameStatement(R[i], OriginalStatement)
            /\ IsNoticeError(R[i + 1], orig.txn, ErrorLhs(OriginalStatement).name)
            /\ BindsResponse(OriginalStatement) =>
                  IsCaptureResponse(R[i + 2], ResponseName(OriginalStatement))
            /\ IsEndExternalSegment(R[i + n])
            /\ TrailingOf(R[i + n], OriginalStatement.decs)
            /\ R[i + 1].decs = NoDecs
            /\ ~IsNilDecs(R[i].decs) => R[i].decs.After = None /\ R[i].decs.End = <<>>

\* C22 witness: resp, err := http.DefaultClient.Do(req) with a trailing
\* comment, after the two transforms in this order
C22_Witness ==
    /\ MatchesR2AndR1
    /\ applied = <<"ExternalHttpCall", "NoticeError">>
    /\ BindsResponse(OriginalStatement)
    /\ ~IsNilDecs(OriginalStatement.decs)
    /\ OriginalStatement.decs.End # <<>>
    /\ Len(cur.list) = Len(orig.list) + 4
    /\ cur.list[cur.i + 3].decs.End = OriginalStatement.decs.End

\* in the other order the notice has taken the trailing decorations and
\* stands after externalSegment.End()
C22_WitnessR1First ==
    /\ MatchesR2AndR1
    /\ applied = <<"NoticeError", "ExternalHttpCall">>
    /\ ~IsNilDecs(OriginalStatement.decs)
    /\ OriginalStatement.decs.End # <<>>
    /\ IsEndExternalSegment(cur.list[cur.i + 2])
    /\ IsNoticeError(cur.list[cur.i + 3], orig.txn, "err")
    /\ cur.list[cur.i + 3].decs.End = OriginalStatement.decs.End

IndexKey == Key("main", "index")

\* the number of parameters of a declaration: a field declares one
\* parameter for each of its names, and one when it has no name
RECURSIVE NumParams(_)
NumParams(params) ==
    IF params = <<>> THEN 0
    ELSE (IF Head(params).names = <<>> THEN 1 ELSE Len(Head(params).names))
         + NumParams(Tail(params))

\* exactly two parameters, an http.ResponseWriter and an *http.Request
IsHandlerSignature(decl) ==
    /\ NumParams(decl.params) = 2
    /\ \E i \in 1..Len(decl.params) : decl.params[i].type = "net/http.ResponseWriter"
    /\ \E i \in 1..Len(decl.params) : decl.params[i].type = "*net/http.Request"

HasFromContextBinding(key) ==
    \E s \in StmtsOf(mgr.decls[key].body) : s.what = "txnFromContext"

\* C23 isHttpHandler: it holds exactly of the declarations with exactly two
\* parameters of the types net/http.ResponseWriter and *net/http.Request,
\* and no other declaration is given the FromContext binding.
C23_HandlerSignature ==
    (run = 1 /\ pc # "crashed") =>
        \A key \in Keys :
            /\ isHttpHandler(orig.decls[key]) <=> IsHandlerSignature(orig.decls[key])
            /\ HasFromContextBinding(key) => IsHandlerSignature(orig.decls[key])

\* what holds: it is the fields that are counted, not the parameters
C23_HandlerFields ==
    (run = 1 /\ pc # "crashed") =>
        \A key \in Keys :
            /\ isHttpHandler(orig.decls[key]) <=>
                  /\ Len(orig.decls[key].params) = 2
                  /\ \E i \in 1..2 : orig.decls[key].params[i].type = "net/http.ResponseWriter"
                  /\ \E i \in 1..2 : orig.decls[key].params[i].type = "*net/http.Request"
            /\ HasFromContextBinding(key) => isHttpHandler(orig.decls[key])

\* index(w http.ResponseWriter, r, r2 *http.Request) was given the binding
C23_ThreeParameters ==
    /\ FirstRunDone
    /\ NumParams(orig.decls[IndexKey].params) = 3
    /\ HasFromContextBinding(IndexKey)

\* the calls of the package-level functions Get, Post, PostForm and Head of
\* net/http in the statement
PackageLevelCalls(stmt) ==
    {i \in 1..Len(stmt.calls) :
        /\ stmt.calls[i].form = "Ident"
        /\ stmt.calls[i].path = netHttpPath
        /\ stmt.calls[i].name \in {httpGet, httpPost, httpPostForm, httpHead}}

First(S) == CHOOSE i \in S : \A j \in S : i <= j

\* C24 isNetHttpMethodCannotInstrument: it returns true exactly for an
\* assignment or expression statement that contains a call of the
\* package-level net/http function Get, Post, PostForm or Head, with the
\* name of the first such call in traversal order, and ("", false)
\* otherwise; a method call on a client is not flagged.
C24_CannotInstrument ==
    pc = "found" =>
        LET stmt == Node(cur)
            flagged == /\ stmt.node \in {"AssignStmt", "ExprStmt"}
                       /\ PackageLevelCalls(stmt) # {}
        IN  /\ ret = flagged
            /\ log = IF flagged THEN stmt.calls[First(PackageLevelCalls(stmt))].name
                     ELSE ""

\* what holds: the boolean is as stated, and the name is that of the last
\* such call that is not inside another one
C24_CannotInstrumentLast ==
    pc = "found" =>
        LET stmt == Node(cur)
            flagged == /\ stmt.node \in {"AssignStmt", "ExprStmt"}
                       /\ PackageLevelCalls(stmt) # {}
            outer == {i \in PackageLevelCalls(stmt) :
                         Ancestors(stmt.calls, i) \cap PackageLevelCalls(stmt) = {}}
        IN  /\ ret = flagged
            /\ log = IF flagged THEN stmt.calls[Last(outer)].name ELSE ""

\* log.Println(http.Get(url), http.Head(url)) is reported as Head
C24_SecondName ==
    /\ pc = "found"
    /\ ret
    /\ Node(cur).node = "ExprStmt"
    /\ Len(Node(cur).calls) = 3
    /\ Node(cur).calls[1].name = "Println"
    /\ Node(cur).calls[2] = [HttpFunc(httpGet) EXCEPT !.under = 1]
    /\ Node(cur).calls[3] = [HttpFunc(httpHead) EXCEPT !.under = 1]
    /\ log = httpHead

\* err := helper(...), helper being a user function that takes a
\* transaction, in the body of key
IsErrorOfTracedFunction(key, s) ==
    /\ s.node = "AssignStmt"
    /\ s.what = "user"
    /\ s.rhs = "call"
    /\ s.calls[s.top].form = "Ident"
    /\ Callee(mgr.decls[key].pkg, s.calls[s.top]) \in Keys
    /\ GainedTxnParameter(Callee(mgr.decls[key].pkg, s.calls[s.top]))
    /\ \E k \in 1..Len(s.lhs) : s.lhs[k].type = ErrorType

\* f, err := os.Open(name): the error of a function that is not the user's
IsErrorOfOtherFunction(key, s) ==
    /\ s.what = "user"
    /\ s.inList
    /\ ReturnsErrorToNotice(s)
    /\ s.calls[s.top].form = "Ident"
    /\ Callee(mgr.decls[key].pkg, s.calls[s.top]) \notin Keys
    /\ ErrorLhs(s).isIdent
    /\ ErrorLhs(s).name # "_"

\* the bodies the tracer has walked, main apart
WalkedBodies == TracedBodies \ {MainKey}

MainStep ==
    /\ run = 1
    /\ <<"decl", MainKey>> \notin visited
    /\ <<"decl", MainKey>> \in visited'
    /\ pc' # "crashed"

\* C26 Package focus is restored: when InstrumentMain has walked main,
\* whatever the packages of the functions its statements call and whether
\* or not they were modified, the package in focus is main's again, the
\* agent import is recorded for main's package, and the imports recorded
\* meanwhile for another package are those of the callees of that package
\* that were given the transaction parameter.
C26_PackageFocus ==
    [][MainStep =>
          /\ mgr'.currentPackage = mgr.decls[MainKey].pkg
          /\ newrelicAgentImport \in mgr'.imports[mgr.decls[MainKey].pkg]
          /\ \A key \in Keys :
                (mgr'.traced[key] /\ ~mgr.traced[key]) =>
                    newrelicAgentImport \in mgr'.imports[mgr.decls[key].pkg]
          /\ \A pkg \in Packages \ {mgr.decls[MainKey].pkg} :
                mgr'.imports[pkg] # mgr.imports[pkg] =>
                    \E key \in Keys : /\ mgr.decls[key].pkg = pkg
                                      /\ mgr'.traced[key]
                                      /\ ~mgr.traced[key]
      ]_vars

\* C26 witness: main called f, then g of package lib, then f again; g was
\* given the parameter and the import went to lib, and the three calls of
\* main are wrapped, the last one looked up in main's package again
C26_Witness ==
    /\ run = 1
    /\ visited = {<<"decl", MainKey>>}
    /\ mgr.currentPackage = "main"
    /\ Key("lib", "g") \in Keys
    /\ GainedTxnParameter(Key("lib", "g"))
    /\ newrelicAgentImport \in mgr.imports["lib"]
    /\ Len(orig.decls[MainKey].body) = 3
    /\ \A i \in {4, 7, 10} :
          /\ IsUserCallOfMain(mgr.decls[MainKey].body[i])
          /\ WrappedInTransaction(mgr.decls[MainKey].body, i)

---------------------------------------------------------------------------
(* The helpers that move decorations (SpecDecs) *)

LeadingHelpers == {"startExternalSegment", "addTxnToRequestContext"}

TrailingHelpers == {"endExternalSegment", "generateNoticeError"}

\* the decorations of the statement before the helper ran, those it has
\* afterwards, and those of the statement the helper returned
DecsBefore == orig.list[1].decs

DecsLeft == cur.list[1].decs

DecsNew == cur.list[2].decs

\* C27: startExternalSegment and addTxnToRequestContext give the new
\* statement the Before and Start of the source and leave the source with
\* Before = None and no Start; endExternalSegment and generateNoticeError do
\* the same with After and End; the other side of the source stays as it
\* was, and a nil source gives a statement with empty decorations.
C27_DecorationMigration ==
    pc = "moved" =>
        IF IsNilDecs(DecsBefore)
        THEN DecsNew = NoDecs /\ DecsLeft = DecsBefore
        ELSE /\ applied[1] \in LeadingHelpers =>
                   /\ DecsNew = [NoDecs EXCEPT !.Before = DecsBefore.Before,
                                                !.Start = DecsBefore.Start]
                   /\ DecsLeft = [DecsBefore EXCEPT !.Before = None, !.Start = <<>>]
             /\ applied[1] \in TrailingHelpers =>
                   /\ DecsNew = [NoDecs EXCEPT !.After = DecsBefore.After,
                                                !.End = DecsBefore.End]
                   /\ DecsLeft = [DecsBefore EXCEPT !.After = None, !.End = <<>>]

\* startExternalSegment has run on a statement with comments and an empty
\* line on both sides
C27_Witness ==
    /\ pc = "moved"
    /\ applied = <<"startExternalSegment">>
    /\ Len(DecsBefore.Start) = MaxLines
    /\ Len(DecsBefore.End) = MaxLines
    /\ DecsBefore.Before = EmptyLine
    /\ DecsBefore.After = EmptyLine
    /\ DecsLeft.End = DecsBefore.End
    /\ DecsNew.Start = DecsBefore.Start

\* generateNoticeError has run on a statement without decorations (nil)
C27_WitnessNil ==
    /\ pc = "moved"
    /\ applied = <<"generateNoticeError">>
    /\ IsNilDecs(DecsBefore)
    /\ DecsNew = NoDecs

---------------------------------------------------------------------------
(* NoticeError and the blank identifier (SpecList) *)

\* s is <txn>.NoticeError(_)
IsBlankNoticeError(s) ==
    /\ s.what = "noticeError"
    /\ s.calls[1].args[1].name = "_"

\* the statement the transforms were tried on binds the error of its call
\* to the blank identifier
ErrorIsBlank ==
    /\ OriginalStatement.node = "AssignStmt"
    /\ findErrorVariable(OriginalStatement) = "_"

\* C28: NoticeError never inserts <txn>.NoticeError(_): where the error of
\* the call is bound to the blank identifier no such statement is in the
\* list, and NoticeError reports no modification.
C28_NoBlankNoticeError ==
    /\ [](\A k \in 1..Len(cur.list) : ~IsBlankNoticeError(cur.list[k]))
    /\ [][ErrorIsBlank /\ applied' = Append(applied, "NoticeError")
            => ~ret' /\ cur' = cur]_vars

\* What holds: a NoticeError(_) is in the list only where the statement
\* binds the error to the blank identifier, and there NoticeError, applied
\* at a valid index, inserts it and reports a modification.
C28_BlankErrorNoticed ==
    /\ []((\E k \in 1..Len(cur.list) : IsBlankNoticeError(cur.list[k]))
              => ErrorIsBlank)
    /\ [][/\ ErrorIsBlank
           /\ Index(cur) >= 0
           /\ applied' = Append(applied, "NoticeError")
           => /\ ret'
              /\ IsBlankNoticeError(cur'.list[cur.i + 1])]_vars

\* resp, _ := http.DefaultClient.Do(req) is followed by txn.NoticeError(_)
C28_BlankNoticed ==
    /\ ErrorIsBlank
    /\ applied = <<"NoticeError">>
    /\ ret
    /\ IsBlankNoticeError(cur.list[cur.i + 1])

---------------------------------------------------------------------------
(* The request the transaction of a handler is read from (SpecHandlers) *)

\* the identifiers whose Context() a FromContext binding of the declaration
\* reads
ContextReceivers(key) ==
    { s.calls[1].args[1].x : s \in {t \in StmtsOf(mgr.decls[key].body) :
                                       t.what = "txnFromContext"} }

NamesOf(params) == {ParamNames(params)[i] : i \in 1..Len(ParamNames(params))}

\* C29: the statement InstrumentHandleFunction prepends to a handler reads
\* the context of a parameter of that handler, whatever the request
\* parameter is named.
C29_ContextOfOwnRequest ==
    \A key \in Keys :
        ContextReceivers(key) \subseteq NamesOf(mgr.decls[key].params)

\* What holds: the context is read from an identifier named r, whatever
\* the parameters of the handler are.
C29_ContextOfR ==
    \A key \in Keys : ContextReceivers(key) \subseteq {"r"}

\* index(w http.ResponseWriter, req *http.Request) reads r.Context()
C29_RequestNamedReq ==
    /\ FirstRunDone
    /\ ParamNames(mgr.decls[IndexKey].params) = <<"w", "req">>
    /\ ContextReceivers(IndexKey) = {"r"}

---------------------------------------------------------------------------
(* The scope of the transaction variable of main (SpecBlocks) *)

\* txn := agent.StartTransaction(...)
DefinesTxn(s) == IsStartTransaction(s) /\ s.tok = "DEFINE"

\* txn = agent.StartTransaction(...), txn.End(), or a call that passes txn
UsesTxn(s) ==
    \/ IsStartTransaction(s) /\ s.tok = "ASSIGN"
    \/ IsEndTransaction(s)
    \/ IsUserCallOfMain(s) /\ HasTxnArgument(s.calls[s.top], defaultTxnName)

\* from position i of the list on, every use of txn comes after a define in
\* the same list or in a list around it; defined: there was one already
RECURSIVE TxnInScope(_, _, _)
TxnInScope(list, i, defined) ==
    IF i > Len(list) THEN TRUE
    ELSE /\ UsesTxn(list[i]) => defined
         /\ TxnInScope(list[i].body, 1, defined)
         /\ TxnInScope(list, i + 1, defined \/ DefinesTxn(list[i]))

DefinesOfMain == SelectSeq(InOrder(mgr.decls[MainKey].body), DefinesTxn)

\* C30: in the main the first run produces, every txn = agent.
\* StartTransaction(...), txn.End() and txn argument comes after the one
\* txn := agent.StartTransaction(...) in the same block or a block around
\* it, also when the wrapped calls stand in different nested blocks.
C30_TxnInScope ==
    MainWasInstrumented =>
        /\ Len(DefinesOfMain) <= 1
        /\ TxnInScope(mgr.decls[MainKey].body, 1, FALSE)

\* What holds: there is at most one define, and every use is in scope
\* where the define stands in the outermost block of main.
C30_TxnInScopeOfOutermostDefine ==
    MainWasInstrumented =>
        /\ Len(DefinesOfMain) <= 1
        /\ (\E i \in 1..Len(mgr.decls[MainKey].body) :
                DefinesTxn(mgr.decls[MainKey].body[i]))
              => TxnInScope(mgr.decls[MainKey].body, 1, FALSE)

\* if ... { txn := agent.StartTransaction("f"); f(arg, txn); txn.End() }
\* is followed, outside the block, by txn = agent.StartTransaction("f")
C30_AssignedOutsideBlock ==
    /\ FirstRunDone
    /\ \E i \in 1..Len(mgr.decls[MainKey].body) :
          /\ mgr.decls[MainKey].body[i].node = "IfStmt"
          /\ \E k \in 1..Len(mgr.decls[MainKey].body[i].body) :
                DefinesTxn(mgr.decls[MainKey].body[i].body[k])
          /\ \E j \in (i + 1)..Len(mgr.decls[MainKey].body) :
                /\ IsStartTransaction(mgr.decls[MainKey].body[j])
                /\ mgr.decls[MainKey].body[j].tok = "ASSIGN"

============================================================================
